---- MODULE Spec2Model ----
(***************************************************************************)
(* FigBuf: a reference-counted, zero-copy-sliceable view over a static or  *)
(* Arc-held backing (src/src/lib.rs).  The state is the set of live views, *)
(* the Arc allocations they reference and the outstanding `&mut` borrows.  *)
(***************************************************************************)
EXTENDS Integers, Sequences, FiniteSets, TLC

\* ------------------------------------------------------------------ bounds
MaxViews == 2      \* view slots the program holds at once
MaxArcs  == 2      \* Arc allocations alive at once
MaxLen   == 2      \* longest vector / string handed to a constructor
MaxCalls == 4      \* calls made in one run
MaxThreads == 2    \* threads cloning and dropping views at once

\* --------------------------------------------------------------- constants
\* usize::MAX, the sentinel ref_count() of a static view (TLC's integers are
\* 32 bits wide: the largest of them stands for it).
USIZE_MAX == 2147483647

\* The `static DATA: [T; 3]` the tests wrap with from_static.
STATIC_DATA == <<1, 2, 3>>
\* A `static TEXT: &str`, here the bytes of "a\u{e9}" (0x61 0xC3 0xA9).
STATIC_TEXT == <<97, 195, 169>>

\* The `static DATA: [i32; 10]` of the slicing scenario: values 0..9.
TEN_DATA == <<0, 1, 2, 3, 4, 5, 6, 7, 8, 9>>

Views == 1..MaxViews
ArcIds == 1..MaxArcs
Threads == 1..MaxThreads
\* SmallFigBuf values held at once, and the inline capacities N tried: none,
\* the longest constructor input, and one byte more.
Smalls == 1..MaxViews
Capacities == {0, MaxLen, MaxLen + 1}

\* Values an element is overwritten with through `&mut [T]`.
WriteVals == {9}
\* Bytes the owned strings are made of: 'a', and the two bytes of U+00E9.
TextBytes == {97, 195, 169}

VARIABLES
  views,    \* view slot -> FigBuf { inner, offset, len } (or a dead slot)
  arcs,     \* Arc id -> the allocation: data and strong count
  pc,       \* view slot -> position of a make_mut in progress on that view
  borrow,   \* view slot -> the `&mut [T]` handed out by get_mut, if any
  last,     \* the last completed call: the operation and its outcome
  calls,    \* calls made so far
  threads,  \* thread -> the clone or drop it is in the middle of, if any
  smalls,   \* slot -> SmallFigBuf<N> { inner } (or a dead slot)
  N         \* the inline capacity of the SmallFigBuf<N> in use

vars == <<views, arcs, pc, borrow, last, calls, threads, smalls, N>>

\* What the calls on FigBuf made from one thread leave alone.
others == <<threads, smalls, N>>

\* --------------------------------------------------------------- the types
\* enum Inner { Static(&'static T), Arc(Arc<T>) }
InnerStatic == [kind |-> "Static", id |-> 0]
InnerArc(a) == [kind |-> "Arc", id |-> a]

\* struct FigBuf { inner, offset, len }, with the element type of the view.
FigBuf(ty, inner, offset, len) ==
  [live |-> TRUE, ty |-> ty, inner |-> inner, offset |-> offset, len |-> len]

NoView == [live |-> FALSE, ty |-> "slice", inner |-> InnerStatic,
           offset |-> 0, len |-> 0]
NoArc == [alive |-> FALSE, data |-> <<>>, strong |-> 0]

\* Option<&mut [T]>: None, or the range [lo, hi) of the allocation.
None == [some |-> FALSE, lo |-> 0, hi |-> 0]
Some(lo, hi) == [some |-> TRUE, lo |-> lo, hi |-> hi]

Op(op, out) == [op |-> op, out |-> out]

\* enum SmallInner<N> { Inline { data: [u8; N], len }, Heap(FigBuf<[u8]>) }
Inline(data, len) ==
  [live |-> TRUE, kind |-> "Inline", data |-> data, len |-> len, buf |-> NoView]
Heap(buf) ==
  [live |-> TRUE, kind |-> "Heap", data |-> <<>>, len |-> 0, buf |-> buf]
NoSmall ==
  [live |-> FALSE, kind |-> "Inline", data |-> <<>>, len |-> 0, buf |-> NoView]

\* A thread that is not inside a clone or a drop.
NoThread == [op |-> "idle", view |-> 0, inner |-> InnerStatic, seen |-> 0]

Min(a, b) == IF a <= b THEN a ELSE b

\* --------------------------------------------------------- pure functions
\* The whole backing a view points into (`full_slice` / `full_str`).
full_slice(vw, A) ==
  IF vw.inner.kind = "Static"
    THEN (IF vw.ty = "str" THEN STATIC_TEXT ELSE STATIC_DATA)
    ELSE A[vw.inner.id].data

\* as_slice / as_str: &full[self.offset .. self.offset + self.len]
as_slice(vw, A) ==
  [i \in 1..vw.len |-> full_slice(vw, A)[vw.offset + i]]

is_static(vw) == vw.inner.kind = "Static"

\* ref_count reporting a static view as a single owner.
ref_count_static_is_one(vw, A) ==
  IF vw.inner.kind = "Static" THEN 1 ELSE A[vw.inner.id].strong

ref_count(vw, A) ==
  IF vw.inner.kind = "Static" THEN USIZE_MAX ELSE A[vw.inner.id].strong

\* get_mut handing out the whole allocation instead of the view's window.
get_mut_whole_backing(vw, A) ==
  IF vw.inner.kind = "Static" THEN None
  ELSE IF A[vw.inner.id].strong = 1
         THEN Some(0, Len(A[vw.inner.id].data))
         ELSE None

\* get_mut that does not ask whether the allocation is shared.
get_mut_ignores_count(vw, A) ==
  IF vw.inner.kind = "Static" THEN None
  ELSE Some(vw.offset, vw.offset + vw.len)

\* get_mut / try_mut: Arc::get_mut succeeds only for the unique owner.
get_mut(vw, A) ==
  IF vw.inner.kind = "Static" THEN None
  ELSE IF A[vw.inner.id].strong = 1
         THEN Some(vw.offset, vw.offset + vw.len)
         ELSE None

\* needs_clone without the `Arc::strong_count(arc) > 1` disjunct.
needs_clone_ignores_count(vw, A) ==
  IF vw.inner.kind = "Static" THEN TRUE
  ELSE \/ vw.offset # 0
       \/ vw.len # Len(A[vw.inner.id].data)

\* needs_clone answering true whatever the view is.
needs_clone_always(vw, A) == TRUE

\* make_mut's `needs_clone`.
needs_clone(vw, A) ==
  IF vw.inner.kind = "Static" THEN TRUE
  ELSE \/ vw.offset # 0
       \/ vw.len # Len(A[vw.inner.id].data)
       \/ A[vw.inner.id].strong > 1

\* u8::is_utf8_char_boundary and str::is_char_boundary
is_char_boundary(s, index) ==
  IF index = 0 THEN TRUE
  ELSE IF index >= Len(s) THEN index = Len(s)
  ELSE s[index + 1] < 128 \/ s[index + 1] >= 192

\* RangeBounds: the ranges slice() is called with (a..b, a.., ..=b, and a
\* pair of Bounds with an excluded start), and their resolution.
Bound(k, n) == [k |-> k, n |-> n]
Ranges ==
  {<<Bound("Included", a), Bound("Excluded", b)>> : a, b \in 0..(MaxLen + 1)}
  \cup {<<Bound("Included", a), Bound("Unbounded", 0)>> : a \in 0..MaxLen}
  \cup {<<Bound("Unbounded", 0), Bound("Included", b)>> : b \in 0..MaxLen}
  \cup {<<Bound("Excluded", a), Bound("Unbounded", 0)>> : a \in 0..MaxLen}
StartOf(b) ==
  CASE b.k = "Included" -> b.n
    [] b.k = "Excluded" -> b.n + 1
    [] OTHER -> 0
EndOf(b, len) ==
  CASE b.k = "Included" -> b.n + 1
    [] b.k = "Excluded" -> b.n
    [] OTHER -> len

\* Inner::clone copying the pointer without taking a strong reference.
Inner_clone_no_count(inner, A) == A

\* Inner::clone: Arc::clone adds one strong reference; Static copies the ref.
Inner_clone(inner, A) ==
  IF inner.kind = "Arc"
    THEN [A EXCEPT ![inner.id].strong = @ + 1]
    ELSE A

\* A drop that gives its reference back but never frees the allocation.
Inner_drop_never_frees(inner, A) ==
  IF inner.kind = "Arc"
    THEN [A EXCEPT ![inner.id].strong = @ - 1]
    ELSE A

\* A drop that frees the last reference but never decrements a shared count.
Inner_drop_keeps_count(inner, A) ==
  IF inner.kind = "Arc"
    THEN IF A[inner.id].strong = 1
           THEN [A EXCEPT ![inner.id] = NoArc]
           ELSE A
    ELSE A

\* Dropping an Inner: Arc's drop releases one strong reference and frees the
\* allocation when it was the last one.
Inner_drop(inner, A) ==
  IF inner.kind = "Arc"
    THEN IF A[inner.id].strong = 1
           THEN [A EXCEPT ![inner.id] = NoArc]
           ELSE [A EXCEPT ![inner.id].strong = @ - 1]
    ELSE A

\* Arc::from(vec.into_boxed_slice()): a new allocation, strong count 1.
Arc_from(a, data, A) ==
  [A EXCEPT ![a] = [alive |-> TRUE, data |-> data, strong |-> 1]]

\* ------------------------------------------------------------ allocation
FreeViews == {v \in Views : ~views[v].live}
FreeArcs == {a \in ArcIds : ~arcs[a].alive}
NewView == CHOOSE v \in FreeViews : \A w \in FreeViews : v <= w
NewArc == CHOOSE a \in FreeArcs : \A b \in FreeArcs : a <= b

\* A view the caller can name and use: live, no make_mut in progress on it
\* and no `&mut` borrow of it outstanding.
Usable(v) == views[v].live /\ pc[v] = "idle" /\ ~borrow[v].some

\* FigBuf<[T]> and FigBuf<str> are different types that never share a
\* backing: a run explores the views of one of the two.
OneType(ty) == \A w \in Views : views[w].live => views[w].ty = ty

\* ----------------------------------------------------------------- inputs
Prefix(n) == [i \in 1..n |-> i]
InputVecs == {Prefix(n) : n \in {0, MaxLen}}

SeqsUpTo(S, n) == UNION {[1..k -> S] : k \in 0..n}
RECURSIVE IsUtf8(_)
IsUtf8(s) ==
  IF s = <<>> THEN TRUE
  ELSE IF s[1] < 128 THEN IsUtf8(Tail(s))
  ELSE /\ s[1] = 195
       /\ Len(s) >= 2
       /\ s[2] >= 128 /\ s[2] < 192
       /\ IsUtf8(Tail(Tail(s)))
InputStrings ==
  {s \in SeqsUpTo(TextBytes, MaxLen) : IsUtf8(s) /\ Len(s) \in {0, MaxLen}}

\* Every call of the API, and every write through a `&mut` it handed out,
\* counts against the length of the run.
Tick == calls < MaxCalls /\ calls' = calls + 1

\* ------------------------------------------------------------------- Init
\* Nothing constructed yet.
Empty ==
  /\ views = [v \in Views |-> NoView]
  /\ arcs = [a \in ArcIds |-> NoArc]
  /\ pc = [v \in Views |-> "idle"]
  /\ borrow = [v \in Views |-> None]
  /\ last = Op("init", "ok")
  /\ calls = 0
  /\ threads = [t \in Threads |-> NoThread]
  /\ smalls = [s \in Smalls |-> NoSmall]

Init == Empty /\ N = 0

\* ----------------------------------------------------------- constructors
from_vec(vec) ==
  /\ FreeViews # {} /\ FreeArcs # {} /\ OneType("slice")
  /\ arcs' = Arc_from(NewArc, vec, arcs)
  /\ views' = [views EXCEPT
                 ![NewView] = FigBuf("slice", InnerArc(NewArc), 0, Len(vec))]
  /\ last' = Op("from_vec", "ok")
  /\ UNCHANGED <<pc, borrow>>
  /\ Tick /\ UNCHANGED others

from_boxed_slice(slice) ==
  /\ FreeViews # {} /\ FreeArcs # {} /\ OneType("slice")
  /\ arcs' = Arc_from(NewArc, slice, arcs)
  /\ views' = [views EXCEPT
                 ![NewView] = FigBuf("slice", InnerArc(NewArc), 0, Len(slice))]
  /\ last' = Op("from_boxed_slice", "ok")
  /\ UNCHANGED <<pc, borrow>>
  /\ Tick /\ UNCHANGED others

from_static ==
  /\ FreeViews # {} /\ OneType("slice")
  /\ views' = [views EXCEPT
                 ![NewView] = FigBuf("slice", InnerStatic, 0, Len(STATIC_DATA))]
  /\ last' = Op("from_static", "ok")
  /\ UNCHANGED <<arcs, pc, borrow>>
  /\ Tick /\ UNCHANGED others

from_string(s) ==
  /\ FreeViews # {} /\ FreeArcs # {} /\ OneType("str")
  /\ arcs' = Arc_from(NewArc, s, arcs)
  /\ views' = [views EXCEPT
                 ![NewView] = FigBuf("str", InnerArc(NewArc), 0, Len(s))]
  /\ last' = Op("from_string", "ok")
  /\ UNCHANGED <<pc, borrow>>
  /\ Tick /\ UNCHANGED others

str_from_static ==
  /\ FreeViews # {} /\ OneType("str")
  /\ views' = [views EXCEPT
                 ![NewView] = FigBuf("str", InnerStatic, 0, Len(STATIC_TEXT))]
  /\ last' = Op("str_from_static", "ok")
  /\ UNCHANGED <<arcs, pc, borrow>>
  /\ Tick /\ UNCHANGED others

\* ------------------------------------------------------- clone and drop
\* impl Clone for FigBuf<[T]> / FigBuf<str>
clone(v) ==
  /\ Usable(v)
  /\ FreeViews # {}
  /\ arcs' = Inner_clone(views[v].inner, arcs)
  /\ views' = [views EXCEPT
                 ![NewView] = FigBuf(views[v].ty, views[v].inner,
                                     views[v].offset, views[v].len)]
  /\ last' = Op("clone", "ok")
  /\ UNCHANGED <<pc, borrow>>
  /\ Tick /\ UNCHANGED others

\* The view goes out of scope: its Inner is dropped.
drop(v) ==
  /\ Usable(v)
  /\ arcs' = Inner_drop(views[v].inner, arcs)
  /\ views' = [views EXCEPT ![v] = NoView]
  /\ last' = Op("drop", "ok")
  /\ UNCHANGED <<pc, borrow>>
  /\ Tick /\ UNCHANGED others

\* ------------------------------------------------------------------ slice
\* slice without `assert!(end <= self.len)`.
slice_check_no_end_assert(vw, start, end) ==
  IF ~(start <= end) THEN "slice start must be <= end" ELSE "ok"

\* slice without `assert!(start <= end)`.
slice_check_no_order_assert(vw, start, end) ==
  IF ~(end <= vw.len) THEN "slice end out of bounds" ELSE "ok"

\* The two assert!s of FigBuf<[T]>::slice, in order; "ok" when both pass.
slice_check(vw, start, end) ==
  IF ~(start <= end) THEN "slice start must be <= end"
  ELSE IF ~(end <= vw.len) THEN "slice end out of bounds"
  ELSE "ok"

\* slice taking `start` as the offset, relative to the backing.
slice_view_drops_offset(vw, start, end) ==
  FigBuf(vw.ty, vw.inner, start, end - start)

\* slice taking `end` as the length.
slice_view_len_is_end(vw, start, end) ==
  FigBuf(vw.ty, vw.inner, vw.offset + start, end)

\* The view slice() builds once the asserts have passed.
slice_view(vw, start, end) ==
  FigBuf(vw.ty, vw.inner, vw.offset + start, end - start)

\* FigBuf<[T]>::slice(range)
slice(v, sb, eb) ==
  LET vw == views[v]
      start == StartOf(sb)
      end == EndOf(eb, vw.len)
      chk == slice_check(vw, start, end)
  IN /\ Usable(v) /\ vw.ty = "slice"
     /\ (chk = "ok") => FreeViews # {}
     /\ IF chk = "ok"
          THEN /\ arcs' = Inner_clone(vw.inner, arcs)
               /\ views' = [views EXCEPT ![NewView] = slice_view(vw, start, end)]
               /\ last' = Op("slice", "ok")
          ELSE /\ last' = Op("slice", chk)
               /\ UNCHANGED <<views, arcs>>
     /\ UNCHANGED <<pc, borrow>>
     /\ Tick /\ UNCHANGED others

\* slice judging the boundaries at `start` and `end` of the whole backing.
str_slice_check_on_backing(vw, start, end, A) ==
  IF ~(start <= end) THEN "slice start must be <= end"
  ELSE IF ~(end <= vw.len) THEN "slice end out of bounds"
  ELSE IF ~is_char_boundary(full_slice(vw, A), start)
    THEN "slice start not at char boundary"
  ELSE IF ~is_char_boundary(full_slice(vw, A), end)
    THEN "slice end not at char boundary"
  ELSE "ok"

\* slice without the assert on the start boundary.
str_slice_check_no_start_assert(vw, start, end, A) ==
  IF ~(start <= end) THEN "slice start must be <= end"
  ELSE IF ~(end <= vw.len) THEN "slice end out of bounds"
  ELSE IF ~is_char_boundary(as_slice(vw, A), end)
    THEN "slice end not at char boundary"
  ELSE "ok"

\* The four assert!s of FigBuf<str>::slice, in order.
str_slice_check(vw, start, end, A) ==
  IF ~(start <= end) THEN "slice start must be <= end"
  ELSE IF ~(end <= vw.len) THEN "slice end out of bounds"
  ELSE IF ~is_char_boundary(as_slice(vw, A), start)
    THEN "slice start not at char boundary"
  ELSE IF ~is_char_boundary(as_slice(vw, A), end)
    THEN "slice end not at char boundary"
  ELSE "ok"

\* FigBuf<str>::slice(range)
str_slice(v, sb, eb) ==
  LET vw == views[v]
      start == StartOf(sb)
      end == EndOf(eb, vw.len)
      chk == str_slice_check(vw, start, end, arcs)
  IN /\ Usable(v) /\ vw.ty = "str"
     /\ (chk = "ok") => FreeViews # {}
     /\ IF chk = "ok"
          THEN /\ arcs' = Inner_clone(vw.inner, arcs)
               /\ views' = [views EXCEPT ![NewView] = slice_view(vw, start, end)]
               /\ last' = Op("str_slice", "ok")
          ELSE /\ last' = Op("str_slice", chk)
               /\ UNCHANGED <<views, arcs>>
     /\ UNCHANGED <<pc, borrow>>
     /\ Tick /\ UNCHANGED others

\* read leaving *self as it was.
Read_read_keeps_view(vw, buflen, A) ==
  LET data == as_slice(vw, A)
      len == Min(buflen, Len(data))
  IN [n |-> len, buf |-> SubSeq(data, 1, len), self |-> vw, arcs |-> A]

\* Read::read as a function of *self and buf.len(): the value returned, the
\* bytes left in buf[..len], the new *self and the allocations.
Read_read(vw, buflen, A) ==
  LET data == as_slice(vw, A)
      len == Min(buflen, Len(data))
      sliced == Inner_clone(vw.inner, A)
  IN [n |-> len, buf |-> SubSeq(data, 1, len),
      self |-> slice_view(vw, len, vw.len),
      arcs |-> Inner_drop(vw.inner, sliced)]

\* impl Read for FigBuf<[u8]>: copy min(buf.len(), len) bytes out, then
\* `*self = self.slice(len..)` (the slice shares the backing, the old value
\* of *self is dropped).
read(v, buflen) ==
  LET r == Read_read(views[v], buflen, arcs)
  IN /\ Usable(v) /\ views[v].ty = "slice"
     /\ views' = [views EXCEPT ![v] = r.self]
     /\ arcs' = r.arcs
     /\ last' = Op("read", "ok")
     /\ UNCHANGED <<pc, borrow>>
     /\ Tick /\ UNCHANGED others

\* --------------------------------------------------------------- mutation
\* FigBuf<[T]>::try_mut: get_mut's answer; a Some is a `&mut [T]` that keeps
\* the view borrowed until it is released.
try_mut(v) ==
  LET g == get_mut(views[v], arcs)
  IN /\ Usable(v) /\ views[v].ty = "slice"
     /\ borrow' = [borrow EXCEPT ![v] = g]
     /\ last' = Op("try_mut", IF g.some THEN "some" ELSE "none")
     /\ UNCHANGED <<views, arcs, pc>>
     /\ Tick /\ UNCHANGED others

\* FigBuf<str>::try_mut
str_try_mut(v) ==
  LET g == get_mut(views[v], arcs)
  IN /\ Usable(v) /\ views[v].ty = "str"
     /\ borrow' = [borrow EXCEPT ![v] = g]
     /\ last' = Op("str_try_mut", IF g.some THEN "some" ELSE "none")
     /\ UNCHANGED <<views, arcs, pc>>
     /\ Tick /\ UNCHANGED others

\* A rebind that forgets the old value of *self instead of dropping it.
make_mut_rebind_leaks_old(vw, a, A) ==
  LET cloned_data == as_slice(vw, A)
  IN [view |-> FigBuf(vw.ty, InnerArc(a), 0, Len(cloned_data)),
      arcs |-> Arc_from(a, cloned_data, A)]

\* make_mut copying the whole old backing and keeping the window.
make_mut_rebind_whole_backing(vw, a, A) ==
  [view |-> FigBuf(vw.ty, InnerArc(a), vw.offset, vw.len),
   arcs |-> Inner_drop(vw.inner, Arc_from(a, full_slice(vw, A), A))]

\* The body of `if needs_clone { ... }`: the visible range is copied into a
\* new allocation `a` (to_vec + from_vec), then the assignment to *self drops
\* the old value.
make_mut_rebind(vw, a, A) ==
  LET cloned_data == as_slice(vw, A)
      made == Arc_from(a, cloned_data, A)
  IN [view |-> FigBuf(vw.ty, InnerArc(a), 0, Len(cloned_data)),
      arcs |-> Inner_drop(vw.inner, made)]

\* The view and the allocations after make_mut's first two statements.
make_mut_prepare(vw, a, A) ==
  IF needs_clone(vw, A)
    THEN make_mut_rebind(vw, a, A)
    ELSE [view |-> vw, arcs |-> A]

\* make_mut's last statement: get_mut().expect("should have unique ownership")
expect(g) == IF g.some THEN "some" ELSE "should have unique ownership"

\* FigBuf<[T]>::make_mut, as one call
make_mut(v) ==
  LET vw == views[v]
      a == IF FreeArcs # {} THEN NewArc ELSE 0
      r == make_mut_prepare(vw, a, arcs)
      g == get_mut(r.view, r.arcs)
  IN /\ Usable(v) /\ vw.ty = "slice"
     /\ needs_clone(vw, arcs) => FreeArcs # {}
     /\ views' = [views EXCEPT ![v] = r.view]
     /\ arcs' = r.arcs
     /\ borrow' = [borrow EXCEPT ![v] = g]
     /\ last' = Op("make_mut", expect(g))
     /\ UNCHANGED pc
     /\ Tick /\ UNCHANGED others

\* FigBuf<str>::make_mut, as one call
str_make_mut(v) ==
  LET vw == views[v]
      a == IF FreeArcs # {} THEN NewArc ELSE 0
      r == make_mut_prepare(vw, a, arcs)
      g == get_mut(r.view, r.arcs)
  IN /\ Usable(v) /\ vw.ty = "str"
     /\ needs_clone(vw, arcs) => FreeArcs # {}
     /\ views' = [views EXCEPT ![v] = r.view]
     /\ arcs' = r.arcs
     /\ borrow' = [borrow EXCEPT ![v] = g]
     /\ last' = Op("str_make_mut", expect(g))
     /\ UNCHANGED pc
     /\ Tick /\ UNCHANGED others

\* `slice[i] = x` through the `&mut [T]` a try_mut / make_mut returned.
write_elem(v, i, x) ==
  LET b == borrow[v]
  IN /\ views[v].live /\ views[v].ty = "slice" /\ b.some
     /\ i \in 0..(b.hi - b.lo - 1)
     /\ arcs' = [arcs EXCEPT ![views[v].inner.id].data[b.lo + i + 1] = x]
     /\ last' = Op("write", "ok")
     /\ UNCHANGED <<views, pc, borrow>>
     /\ Tick /\ UNCHANGED others

\* Buffers handed to Write::write.
WriteBufs == {[i \in 1..k |-> 9] : k \in 0..(MaxLen + 1)}

\* write that does not look at the share count of the allocation.
Write_write_ignores_sharing(vw, buf, A) ==
  LET available == vw.len
      to_write == Min(Len(buf), available)
  IN IF available = 0 THEN [out |-> "WriteZero", n |-> 0, arcs |-> A]
     ELSE IF vw.inner.kind = "Arc"
       THEN [out |-> "ok", n |-> to_write,
             arcs |-> [A EXCEPT ![vw.inner.id].data =
                         [i \in DOMAIN @ |->
                            IF i > vw.offset /\ i <= vw.offset + to_write
                              THEN buf[i - vw.offset] ELSE @[i]]]]
     ELSE [out |-> "PermissionDenied", n |-> 0, arcs |-> A]

\* Write::write as a function of *self and buf: WriteZero on an empty view,
\* else `slice[..to_write].copy_from_slice(&buf[..to_write])` through
\* try_mut(), PermissionDenied when try_mut() is None.
Write_write(vw, buf, A) ==
  LET available == vw.len
      to_write == Min(Len(buf), available)
      g == get_mut(vw, A)
  IN IF available = 0 THEN [out |-> "WriteZero", n |-> 0, arcs |-> A]
     ELSE IF g.some
       THEN [out |-> "ok", n |-> to_write,
             arcs |-> [A EXCEPT ![vw.inner.id].data =
                         [i \in DOMAIN @ |->
                            IF i > g.lo /\ i <= g.lo + to_write
                              THEN buf[i - g.lo] ELSE @[i]]]]
     ELSE [out |-> "PermissionDenied", n |-> 0, arcs |-> A]

\* impl Write for FigBuf<[u8]>
write(v, buf) ==
  LET r == Write_write(views[v], buf, arcs)
  IN /\ Usable(v) /\ views[v].ty = "slice"
     /\ arcs' = r.arcs
     /\ last' = Op("Write::write", r.out)
     /\ UNCHANGED <<views, pc, borrow>>
     /\ Tick /\ UNCHANGED others

\* u8::to_ascii_uppercase
to_ascii_uppercase(c) == IF c >= 97 /\ c <= 122 THEN c - 32 ELSE c

\* `s.make_ascii_uppercase()` through the `&mut str` handed out.
make_ascii_uppercase(v) ==
  LET b == borrow[v]
      old == arcs[views[v].inner.id].data
  IN /\ views[v].live /\ views[v].ty = "str" /\ b.some
     /\ arcs' = [arcs EXCEPT ![views[v].inner.id].data =
                   [k \in 1..Len(old) |->
                      IF k > b.lo /\ k <= b.hi
                        THEN to_ascii_uppercase(old[k]) ELSE old[k]]]
     /\ last' = Op("make_ascii_uppercase", "ok")
     /\ UNCHANGED <<views, pc, borrow>>
     /\ Tick /\ UNCHANGED others

\* The `&mut` borrow ends (the reference goes out of scope): not a call.
release(v) ==
  /\ views[v].live /\ borrow[v].some
  /\ borrow' = [borrow EXCEPT ![v] = None]
  /\ last' = Op("release", "ok")
  /\ UNCHANGED <<views, arcs, pc>>
  /\ UNCHANGED <<calls, others>>

\* ------------------------------------------- make_mut, statement by statement
\* Other threads' calls on other views interleave between its statements;
\* the call is counted once, at its first statement.
make_mut_check(v) ==
  /\ Usable(v)
  /\ pc' = [pc EXCEPT ![v] = IF needs_clone(views[v], arcs)
                               THEN "clone" ELSE "get_mut"]
  /\ UNCHANGED <<views, arcs, borrow, last>>
  /\ Tick /\ UNCHANGED others

make_mut_clone(v) ==
  /\ views[v].live /\ pc[v] = "clone"
  /\ FreeArcs # {}
  /\ LET r == make_mut_rebind(views[v], NewArc, arcs)
     IN /\ views' = [views EXCEPT ![v] = r.view]
        /\ arcs' = r.arcs
  /\ pc' = [pc EXCEPT ![v] = "get_mut"]
  /\ UNCHANGED <<borrow, last>>
  /\ UNCHANGED <<calls, others>>

make_mut_get(v) ==
  LET g == get_mut(views[v], arcs)
  IN /\ views[v].live /\ pc[v] = "get_mut"
     /\ borrow' = [borrow EXCEPT ![v] = g]
     /\ pc' = [pc EXCEPT ![v] = "idle"]
     /\ last' = Op(IF views[v].ty = "str" THEN "str_make_mut" ELSE "make_mut", expect(g))
     /\ UNCHANGED <<views, arcs>>
     /\ UNCHANGED <<calls, others>>

\* ------------------------------------- clone and drop, from several threads
\* Arc::clone is one atomic fetch_add on the strong count and Arc's drop one
\* atomic fetch_sub, followed by the release of the allocation in the thread
\* that saw the count go from 1 to 0.  `seen` is the count when the call
\* started: the atomic update does not use it.
Arc_fetch_add_load_store(inner, seen, A) ==
  IF inner.kind = "Arc"
    THEN [A EXCEPT ![inner.id].strong = seen + 1]
    ELSE A

Arc_fetch_add(inner, seen, A) == Inner_clone(inner, A)

\* fetch_sub(1): the new counts, and the count it replaced.
Arc_fetch_sub(inner, A) ==
  IF inner.kind = "Arc"
    THEN [arcs |-> [A EXCEPT ![inner.id].strong = @ - 1],
          prev |-> A[inner.id].strong]
    ELSE [arcs |-> A, prev |-> 0]

Cloning(v) == \E t \in Threads : threads[t].op = "clone" /\ threads[t].view = v

\* fn clone(&self): the thread holds `&self` from here on.
clone_enter(t, v) ==
  /\ threads[t].op = "idle" /\ Usable(v)
  /\ threads' = [threads EXCEPT ![t] =
                   [op |-> "clone", view |-> v, inner |-> views[v].inner,
                    seen |-> ref_count(views[v], arcs)]]
  /\ UNCHANGED <<views, arcs, pc, borrow, last, smalls, N>>
  /\ Tick

\* inner: self.inner.clone(), and the new view is built around it.
clone_fetch_add(t) ==
  LET c == threads[t]
  IN /\ c.op = "clone" /\ FreeViews # {}
     /\ arcs' = Arc_fetch_add(c.inner, c.seen, arcs)
     /\ views' = [views EXCEPT ![NewView] = views[c.view]]
     /\ threads' = [threads EXCEPT ![t] = NoThread]
     /\ last' = Op("clone", IF ref_count(views[c.view], arcs) = c.seen
                              THEN "ok" ELSE "overlapped")
     /\ UNCHANGED <<pc, borrow, calls, smalls, N>>

\* The view goes out of scope: its Arc's drop decrements the count.
drop_fetch_sub(t, v) ==
  LET r == Arc_fetch_sub(views[v].inner, arcs)
  IN /\ threads[t].op = "idle" /\ Usable(v) /\ ~Cloning(v)
     /\ views' = [views EXCEPT ![v] = NoView]
     /\ arcs' = r.arcs
     /\ threads' = [threads EXCEPT ![t] =
                      IF r.prev = 1
                        THEN [op |-> "drop_slow", view |-> 0,
                              inner |-> views[v].inner, seen |-> r.prev]
                        ELSE NoThread]
     /\ last' = Op("drop", "ok")
     /\ UNCHANGED <<pc, borrow, smalls, N>>
     /\ Tick

\* The thread that took the count to zero releases the allocation.
drop_slow(t) ==
  LET c == threads[t]
  IN /\ c.op = "drop_slow"
     /\ arcs' = [arcs EXCEPT ![c.inner.id] = NoArc]
     /\ last' = Op("drop", IF arcs[c.inner.id].alive
                             THEN "released" ELSE "double free")
     /\ threads' = [threads EXCEPT ![t] = NoThread]
     /\ UNCHANGED <<views, pc, borrow, calls, smalls, N>>

\* ------------------------------------------------------------ SmallFigBuf
\* `[0; N]` with the first bytes overwritten by `slice`.
Pad(bytes, n) == [i \in 1..n |-> IF i <= Len(bytes) THEN bytes[i] ELSE 0]

FreeSmalls == {s \in Smalls : ~smalls[s].live}
NewSmall == CHOOSE s \in FreeSmalls : \A w \in FreeSmalls : s <= w
\* The Arc a heap constructor allocates (unused by the inline path, and by a
\* constructor that is not enabled because no Arc is free).
NewArcIfAny == IF FreeArcs = {} THEN 1 ELSE NewArc

\* Payloads handed to from_slice / from_vec: empty, one byte, and the lengths
\* around the largest capacities.
Payloads == {Prefix(n) : n \in {0, 1, MaxLen, MaxLen + 1}}
\* Ranges a..b handed to SmallFigBuf::slice.
SmallRanges ==
  {<<Bound("Included", a), Bound("Excluded", b)>> :
     a \in {0, 1}, b \in {0, 1, MaxLen, MaxLen + 1}}

SmallFigBuf_new(n) == Inline(Pad(<<>>, n), 0)

\* from_slice comparing with `<`: a payload of exactly N bytes goes to the heap.
SmallFigBuf_from_slice_strict(bytes, n, a, A) ==
  IF Len(bytes) < n
    THEN [small |-> Inline(Pad(bytes, n), Len(bytes)), arcs |-> A]
    ELSE [small |-> Heap(FigBuf("slice", InnerArc(a), 0, Len(bytes))),
          arcs |-> Arc_from(a, bytes, A)]

\* from_slice keeping a payload of N + 1 bytes inline.
SmallFigBuf_from_slice_off_by_one(bytes, n, a, A) ==
  IF Len(bytes) <= n + 1
    THEN [small |-> Inline(Pad(bytes, n), Len(bytes)), arcs |-> A]
    ELSE [small |-> Heap(FigBuf("slice", InnerArc(a), 0, Len(bytes))),
          arcs |-> Arc_from(a, bytes, A)]

\* SmallFigBuf::from_slice: `if slice.len() <= N` inline, else on the heap.
SmallFigBuf_from_slice(bytes, n, a, A) ==
  IF Len(bytes) <= n
    THEN [small |-> Inline(Pad(bytes, n), Len(bytes)), arcs |-> A]
    ELSE [small |-> Heap(FigBuf("slice", InnerArc(a), 0, Len(bytes))),
          arcs |-> Arc_from(a, bytes, A)]

\* from_vec moving every vector to the heap.
SmallFigBuf_from_vec_always_heap(vec, n, a, A) ==
  [small |-> Heap(FigBuf("slice", InnerArc(a), 0, Len(vec))),
   arcs |-> Arc_from(a, vec, A)]

\* SmallFigBuf::from_vec: `if vec.len() <= N` from_slice(&vec), else the
\* vector is moved into a FigBuf.
SmallFigBuf_from_vec(vec, n, a, A) ==
  IF Len(vec) <= n
    THEN SmallFigBuf_from_slice(vec, n, a, A)
    ELSE [small |-> Heap(FigBuf("slice", InnerArc(a), 0, Len(vec))),
          arcs |-> Arc_from(a, vec, A)]

\* from_static copying a static slice that fits into inline storage.
SmallFigBuf_from_static_inline_if_fits(n) ==
  IF Len(STATIC_DATA) <= n
    THEN Inline(Pad(STATIC_DATA, n), Len(STATIC_DATA))
    ELSE Heap(FigBuf("slice", InnerStatic, 0, Len(STATIC_DATA)))

\* SmallFigBuf::from_static: always Heap(FigBuf::from_static(slice)).
SmallFigBuf_from_static(n) ==
  Heap(FigBuf("slice", InnerStatic, 0, Len(STATIC_DATA)))

SmallFigBuf_len(sm) == IF sm.kind = "Inline" THEN sm.len ELSE sm.buf.len
is_inline(sm) == sm.kind = "Inline"
is_heap(sm) == sm.kind = "Heap"

\* SmallFigBuf::as_slice: &data[..len], or the FigBuf's as_slice().
SmallFigBuf_as_slice(sm, A) ==
  IF sm.kind = "Inline" THEN SubSeq(sm.data, 1, sm.len) ELSE as_slice(sm.buf, A)

\* The two assert!s of SmallFigBuf::slice.
SmallFigBuf_slice_check(sm, start, end) ==
  IF ~(start <= end) THEN "slice start must be <= end"
  ELSE IF ~(end <= SmallFigBuf_len(sm)) THEN "slice end out of bounds"
  ELSE "ok"

\* slice choosing the representation again from the length of the result.
SmallFigBuf_slice_rechooses(sm, start, end, n, a, A) ==
  LET r == SmallFigBuf_from_slice(SubSeq(SmallFigBuf_as_slice(sm, A), start + 1, end), n, a, A)
  IN [out |-> "ok", small |-> r.small, arcs |-> r.arcs]

\* slice copying the bytes of a heap value into a new allocation.
SmallFigBuf_slice_copies_heap(sm, start, end, n, a, A) ==
  IF sm.kind = "Inline"
    THEN [out |-> "ok",
          small |-> Inline(Pad(SubSeq(sm.data, start + 1, end), n), end - start),
          arcs |-> A]
    ELSE [out |-> "ok", small |-> Heap(FigBuf("slice", InnerArc(a), 0, end - start)),
          arcs |-> Arc_from(a, SubSeq(as_slice(sm.buf, A), start + 1, end), A)]

\* SmallFigBuf::slice once the asserts have passed: an inline value is copied
\* into a new array when slice_len <= N (unreachable!() otherwise, and a panic
\* of the index data[start..end] when end is beyond the array), a heap value
\* is sliced by FigBuf::slice (zero-copy).
SmallFigBuf_slice(sm, start, end, n, a, A) ==
  IF sm.kind = "Inline"
    THEN IF end - start > n
           THEN [out |-> "slice of inline data cannot exceed capacity",
                 small |-> NoSmall, arcs |-> A]
         ELSE IF end > Len(sm.data)
           THEN [out |-> "range end index out of range",
                 small |-> NoSmall, arcs |-> A]
         ELSE [out |-> "ok",
               small |-> Inline(Pad(SubSeq(sm.data, start + 1, end), n), end - start),
               arcs |-> A]
    ELSE [out |-> "ok", small |-> Heap(slice_view(sm.buf, start, end)),
          arcs |-> Inner_clone(sm.buf.inner, A)]

\* Clone for SmallFigBuf: the array is copied, the FigBuf cloned.
SmallFigBuf_clone(sm, A) ==
  IF sm.kind = "Inline"
    THEN [small |-> Inline(sm.data, sm.len), arcs |-> A]
    ELSE [small |-> Heap(sm.buf), arcs |-> Inner_clone(sm.buf.inner, A)]

small_new ==
  /\ FreeSmalls # {}
  /\ smalls' = [smalls EXCEPT ![NewSmall] = SmallFigBuf_new(N)]
  /\ last' = Op("small_new", "ok")
  /\ UNCHANGED <<views, arcs, pc, borrow, threads, N>>
  /\ Tick

small_from_slice(bytes) ==
  LET r == SmallFigBuf_from_slice(bytes, N, NewArcIfAny, arcs)
  IN /\ FreeSmalls # {}
     /\ is_heap(r.small) => FreeArcs # {}
     /\ smalls' = [smalls EXCEPT ![NewSmall] = r.small]
     /\ arcs' = r.arcs
     /\ last' = Op("small_from_slice", "ok")
     /\ UNCHANGED <<views, pc, borrow, threads, N>>
     /\ Tick

small_from_vec(vec) ==
  LET r == SmallFigBuf_from_vec(vec, N, NewArcIfAny, arcs)
  IN /\ FreeSmalls # {}
     /\ is_heap(r.small) => FreeArcs # {}
     /\ smalls' = [smalls EXCEPT ![NewSmall] = r.small]
     /\ arcs' = r.arcs
     /\ last' = Op("small_from_vec", "ok")
     /\ UNCHANGED <<views, pc, borrow, threads, N>>
     /\ Tick

small_from_static ==
  /\ FreeSmalls # {}
  /\ smalls' = [smalls EXCEPT ![NewSmall] = SmallFigBuf_from_static(N)]
  /\ last' = Op("small_from_static", "ok")
  /\ UNCHANGED <<views, arcs, pc, borrow, threads, N>>
  /\ Tick

small_slice(s, sb, eb) ==
  LET sm == smalls[s]
      start == StartOf(sb)
      end == EndOf(eb, SmallFigBuf_len(sm))
      chk == SmallFigBuf_slice_check(sm, start, end)
  IN /\ sm.live
     /\ IF chk = "ok"
          THEN LET r == SmallFigBuf_slice(sm, start, end, N, NewArcIfAny, arcs)
               IN /\ FreeSmalls # {}
                  /\ smalls' = IF r.out = "ok"
                                 THEN [smalls EXCEPT ![NewSmall] = r.small]
                                 ELSE smalls
                  /\ arcs' = r.arcs
                  /\ last' = Op("small_slice", r.out)
          ELSE /\ last' = Op("small_slice", chk)
               /\ UNCHANGED <<smalls, arcs>>
     /\ UNCHANGED <<views, pc, borrow, threads, N>>
     /\ Tick

small_clone(s) ==
  LET r == SmallFigBuf_clone(smalls[s], arcs)
  IN /\ smalls[s].live /\ FreeSmalls # {}
     /\ smalls' = [smalls EXCEPT ![NewSmall] = r.small]
     /\ arcs' = r.arcs
     /\ last' = Op("small_clone", "ok")
     /\ UNCHANGED <<views, pc, borrow, threads, N>>
     /\ Tick

\* The value goes out of scope: a Heap value drops its FigBuf.
small_drop(s) ==
  /\ smalls[s].live
  /\ smalls' = [smalls EXCEPT ![s] = NoSmall]
  /\ arcs' = IF is_heap(smalls[s])
               THEN Inner_drop(smalls[s].buf.inner, arcs) ELSE arcs
  /\ last' = Op("small_drop", "ok")
  /\ UNCHANGED <<views, pc, borrow, threads, N>>
  /\ Tick

\* ------------------------------------------------------------ SmallFigStr
\* struct SmallFigStr<N> { inner: SmallFigBuf<N> }: the slots of `smalls`
\* hold the inner value.
\* The asserts SmallFigStr::slice meets, in order: its own two on the
\* character boundaries, then the two of SmallFigBuf::slice.
SmallFigStr_slice_check(sm, start, end, A) ==
  IF ~is_char_boundary(SmallFigBuf_as_slice(sm, A), start)
    THEN "slice start not at char boundary"
  ELSE IF ~is_char_boundary(SmallFigBuf_as_slice(sm, A), end)
    THEN "slice end not at char boundary"
  ELSE SmallFigBuf_slice_check(sm, start, end)

\* impl From<&str> for SmallFigStr<N>
SmallFigStr_from(s) ==
  LET r == SmallFigBuf_from_slice(s, N, NewArcIfAny, arcs)
  IN /\ FreeSmalls # {}
     /\ is_heap(r.small) => FreeArcs # {}
     /\ smalls' = [smalls EXCEPT ![NewSmall] = r.small]
     /\ arcs' = r.arcs
     /\ last' = Op("SmallFigStr_from", "ok")
     /\ UNCHANGED <<views, pc, borrow, threads, N>>
     /\ Tick

\* SmallFigStr::slice(range)
SmallFigStr_slice(s, sb, eb) ==
  LET sm == smalls[s]
      start == StartOf(sb)
      end == EndOf(eb, SmallFigBuf_len(sm))
      chk == SmallFigStr_slice_check(sm, start, end, arcs)
  IN /\ sm.live
     /\ IF chk = "ok"
          THEN LET r == SmallFigBuf_slice(sm, start, end, N, NewArcIfAny, arcs)
               IN /\ FreeSmalls # {}
                  /\ smalls' = IF r.out = "ok"
                                 THEN [smalls EXCEPT ![NewSmall] = r.small]
                                 ELSE smalls
                  /\ arcs' = r.arcs
                  /\ last' = Op("SmallFigStr_slice", r.out)
          ELSE /\ last' = Op("SmallFigStr_slice", chk)
               /\ UNCHANGED <<smalls, arcs>>
     /\ UNCHANGED <<views, pc, borrow, threads, N>>
     /\ Tick

\* to_vec() of the whole inline array instead of its first `len` bytes.
SmallFigBuf_to_vec_whole_array(sm) == sm.data

\* data[..*len].to_vec(): the logical bytes of an inline value, as a vector.
SmallFigBuf_to_vec(sm) == SubSeq(sm.data, 1, sm.len)

\* SmallFigBuf::to_figbuf(&self): FigBuf::from_vec(data[..len].to_vec()), or
\* a clone of the FigBuf.
to_figbuf(s) ==
  LET sm == smalls[s]
  IN /\ sm.live /\ FreeViews # {}
     /\ is_inline(sm) => FreeArcs # {}
     /\ IF is_inline(sm)
          THEN /\ arcs' = Arc_from(NewArc, SmallFigBuf_to_vec(sm), arcs)
               /\ views' = [views EXCEPT
                              ![NewView] = FigBuf("slice", InnerArc(NewArc), 0,
                                                  Len(SmallFigBuf_to_vec(sm)))]
          ELSE /\ arcs' = Inner_clone(sm.buf.inner, arcs)
               /\ views' = [views EXCEPT ![NewView] = sm.buf]
     /\ last' = Op("to_figbuf", "ok")
     /\ UNCHANGED <<smalls, pc, borrow, threads, N>>
     /\ Tick

\* SmallFigBuf::into_figbuf(self): the same for an inline value; a heap value
\* gives its FigBuf away.
into_figbuf(s) ==
  LET sm == smalls[s]
  IN /\ sm.live /\ FreeViews # {}
     /\ is_inline(sm) => FreeArcs # {}
     /\ IF is_inline(sm)
          THEN /\ arcs' = Arc_from(NewArc, SmallFigBuf_to_vec(sm), arcs)
               /\ views' = [views EXCEPT
                              ![NewView] = FigBuf("slice", InnerArc(NewArc), 0,
                                                  Len(SmallFigBuf_to_vec(sm)))]
          ELSE /\ arcs' = arcs
               /\ views' = [views EXCEPT ![NewView] = sm.buf]
     /\ smalls' = [smalls EXCEPT ![s] = NoSmall]
     /\ last' = Op("into_figbuf", "ok")
     /\ UNCHANGED <<pc, borrow, threads, N>>
     /\ Tick

\* ------------------------------------------------------------------ Bytes
\* struct Bytes { inner: FigBuf<[u8]> }: a Bytes value is its FigBuf, held in
\* a view slot.  Indexes handed to split_off / split_to.
SplitAts == 0..(MaxLen + 2)

\* split_off answering an index past the end with an empty buffer.
Bytes_split_off_clamps(vw, at, A) ==
  LET k == Min(at, vw.len)
  IN [out |-> "ok", self |-> slice_view(vw, 0, k),
      ret |-> slice_view(vw, k, vw.len), arcs |-> Inner_clone(vw.inner, A)]

\* split_off keeping the tail in self and returning the head.
Bytes_split_off_swapped(vw, at, A) ==
  LET c == slice_check(vw, at, vw.len)
  IN IF c # "ok"
       THEN [out |-> c, self |-> vw, ret |-> NoView, arcs |-> A]
       ELSE [out |-> "ok", self |-> slice_view(vw, at, vw.len),
             ret |-> slice_view(vw, 0, at), arcs |-> Inner_clone(vw.inner, A)]

\* Bytes::split_off(&mut self, at):
\*   let right = self.inner.slice(at..);      (panics before anything changed)
\*   self.inner = self.inner.slice(..at);      (the old self.inner is dropped)
\*   Self { inner: right }
Bytes_split_off(vw, at, A) ==
  LET c1 == slice_check(vw, StartOf(Bound("Included", at)),
                        EndOf(Bound("Unbounded", 0), vw.len))
      c2 == slice_check(vw, StartOf(Bound("Unbounded", 0)),
                        EndOf(Bound("Excluded", at), vw.len))
      sliced == Inner_clone(vw.inner, Inner_clone(vw.inner, A))
  IN IF c1 # "ok" THEN [out |-> c1, self |-> vw, ret |-> NoView, arcs |-> A]
     ELSE IF c2 # "ok" THEN [out |-> c2, self |-> vw, ret |-> NoView, arcs |-> A]
     ELSE [out |-> "ok",
           self |-> slice_view(vw, 0, at),
           ret |-> slice_view(vw, at, vw.len),
           arcs |-> Inner_drop(vw.inner, sliced)]

\* Bytes::split_to(&mut self, at):
\*   let left = self.inner.slice(..at);
\*   self.inner = self.inner.slice(at..);
\*   Self { inner: left }
Bytes_split_to(vw, at, A) ==
  LET c1 == slice_check(vw, StartOf(Bound("Unbounded", 0)),
                        EndOf(Bound("Excluded", at), vw.len))
      c2 == slice_check(vw, StartOf(Bound("Included", at)),
                        EndOf(Bound("Unbounded", 0), vw.len))
      sliced == Inner_clone(vw.inner, Inner_clone(vw.inner, A))
  IN IF c1 # "ok" THEN [out |-> c1, self |-> vw, ret |-> NoView, arcs |-> A]
     ELSE IF c2 # "ok" THEN [out |-> c2, self |-> vw, ret |-> NoView, arcs |-> A]
     ELSE [out |-> "ok",
           self |-> slice_view(vw, at, vw.len),
           ret |-> slice_view(vw, 0, at),
           arcs |-> Inner_drop(vw.inner, sliced)]

\* Bytes::new(): FigBuf::from_vec(Vec::new())
Bytes_new ==
  /\ FreeViews # {} /\ FreeArcs # {} /\ OneType("slice")
  /\ arcs' = Arc_from(NewArc, <<>>, arcs)
  /\ views' = [views EXCEPT ![NewView] = FigBuf("slice", InnerArc(NewArc), 0, 0)]
  /\ last' = Op("Bytes_new", "ok")
  /\ UNCHANGED <<pc, borrow>>
  /\ Tick /\ UNCHANGED others

split_off(v, at) ==
  LET r == Bytes_split_off(views[v], at, arcs)
  IN /\ Usable(v) /\ views[v].ty = "slice"
     /\ (r.out = "ok") => FreeViews # {}
     /\ IF r.out = "ok"
          THEN views' = [views EXCEPT ![v] = r.self, ![NewView] = r.ret]
          ELSE views' = views
     /\ arcs' = r.arcs
     /\ last' = Op("split_off", r.out)
     /\ UNCHANGED <<pc, borrow>>
     /\ Tick /\ UNCHANGED others

split_to(v, at) ==
  LET r == Bytes_split_to(views[v], at, arcs)
  IN /\ Usable(v) /\ views[v].ty = "slice"
     /\ (r.out = "ok") => FreeViews # {}
     /\ IF r.out = "ok"
          THEN views' = [views EXCEPT ![v] = r.self, ![NewView] = r.ret]
          ELSE views' = views
     /\ arcs' = r.arcs
     /\ last' = Op("split_to", r.out)
     /\ UNCHANGED <<pc, borrow>>
     /\ Tick /\ UNCHANGED others

\* ---------------------------------------------------------- specifications
Common ==
  \/ \E vec \in InputVecs : from_vec(vec)
  \/ \E vec \in InputVecs : from_boxed_slice(vec)
  \/ from_static
  \/ \E s \in InputStrings : from_string(s)
  \/ str_from_static
  \/ \E v \in Views : clone(v)
  \/ \E v \in Views : drop(v)
  \/ \E v \in Views, r \in Ranges : slice(v, r[1], r[2])
  \/ \E v \in Views, r \in Ranges : str_slice(v, r[1], r[2])
  \/ \E v \in Views, n \in 0..MaxLen : read(v, n)
  \/ \E v \in Views : try_mut(v)
  \/ \E v \in Views : str_try_mut(v)
  \/ \E v \in Views, i \in 0..(MaxLen - 1), x \in WriteVals : write_elem(v, i, x)
  \/ \E v \in Views : make_ascii_uppercase(v)
  \/ \E v \in Views : release(v)

\* One thread: every call runs to completion before the next starts.
Next ==
  \/ Common
  \/ \E v \in Views : make_mut(v)
  \/ \E v \in Views : str_make_mut(v)

Spec == Init /\ [][Next]_vars

\* Several threads, each owning some of the views.
NextConc ==
  \/ Common
  \/ \E v \in Views : make_mut_check(v)
  \/ \E v \in Views : make_mut_clone(v)
  \/ \E v \in Views : make_mut_get(v)

SpecConc == Init /\ [][NextConc]_vars

\* The slicing scenario: views over the ten elements, sliced and sliced again.
TenRanges ==
  {<<Bound("Included", a), Bound("Excluded", b)>> : a \in {0, 1, 2}, b \in {4, 6, 8, 10}}

NextTen ==
  \/ from_vec(TEN_DATA)
  \/ \E v \in Views, r \in TenRanges : slice(v, r[1], r[2])
  \/ \E v \in Views : drop(v)

SpecTen == Init /\ [][NextTen]_vars

\* SmallFigBuf<N>, for each inline capacity N.
InitSmall == Empty /\ N \in Capacities

NextSmall ==
  \/ small_new
  \/ \E p \in Payloads : small_from_slice(p)
  \/ \E p \in Payloads : small_from_vec(p)
  \/ small_from_static
  \/ \E s \in Smalls, r \in SmallRanges : small_slice(s, r[1], r[2])
  \/ \E s \in Smalls : small_clone(s)
  \/ \E s \in Smalls : small_drop(s)
  \/ \E s \in Smalls : to_figbuf(s)
  \/ \E s \in Smalls : into_figbuf(s)
  \/ \E v \in Views : drop(v)

SpecSmall == InitSmall /\ [][NextSmall]_vars

\* Bytes: buffers over the ten bytes and the empty buffer, split and sliced.
NextBytes ==
  \/ from_vec(TEN_DATA)
  \/ Bytes_new
  \/ \E v \in Views, r \in TenRanges : slice(v, r[1], r[2])
  \/ \E v \in Views, at \in SplitAts : split_off(v, at)
  \/ \E v \in Views, at \in SplitAts : split_to(v, at)
  \/ \E v \in Views : drop(v)

SpecBytes == Init /\ [][NextBytes]_vars

\* The same texts held as FigBuf<str> and as SmallFigStr<N>.
NextStr ==
  \/ \E s \in InputStrings : from_string(s)
  \/ \E s \in InputStrings : SmallFigStr_from(s)
  \/ \E v \in Views, r \in Ranges : str_slice(v, r[1], r[2])
  \/ \E s \in Smalls, r \in Ranges : SmallFigStr_slice(s, r[1], r[2])
  \/ \E v \in Views : drop(v)
  \/ \E s \in Smalls : small_drop(s)

SpecStr == InitSmall /\ [][NextStr]_vars

\* FigBuf<[u8]> as a std::io reader.
NextRead ==
  \/ \E vec \in InputVecs : from_vec(vec)
  \/ from_static
  \/ \E v \in Views : clone(v)
  \/ \E v \in Views, n \in {0, 1, MaxLen + 1} : read(v, n)
  \/ \E v \in Views : drop(v)

SpecRead == Init /\ [][NextRead]_vars

\* FigBuf<[u8]> as a std::io writer.
NextWrite ==
  \/ \E vec \in InputVecs : from_vec(vec)
  \/ from_static
  \/ \E v \in Views : clone(v)
  \/ \E v \in Views, r \in Ranges : slice(v, r[1], r[2])
  \/ \E v \in Views, buf \in WriteBufs : write(v, buf)
  \/ \E v \in Views : drop(v)

SpecWrite == Init /\ [][NextWrite]_vars

\* Several threads cloning and dropping views of the same allocations.
NextArc ==
  \/ \E vec \in InputVecs : from_vec(vec)
  \/ \E t \in Threads, v \in Views : clone_enter(t, v)
  \/ \E t \in Threads : clone_fetch_add(t)
  \/ \E t \in Threads, v \in Views : drop_fetch_sub(t, v)
  \/ \E t \in Threads : drop_slow(t)

SpecArc == Init /\ [][NextArc]_vars

\* ------------------------------------------------------------------ claims
Live == {v \in Views : views[v].live}
Sharers(v) == {u \in Live : views[u].inner = views[v].inner}
RangeStart(r) == StartOf(r[1])
RangeEnd(r, vw) == EndOf(r[2], vw.len)

\* C1: every live view, over [T] or str, has offset + len within the length
\* of its backing.
C1_WindowWithinBacking ==
  \A v \in Live :
    views[v].offset + views[v].len <= Len(full_slice(views[v], arcs))

\* A read has narrowed a view to a non-empty window that starts inside its
\* backing.
C1_Witness ==
  /\ last.op = "read"
  /\ \E v \in Live : views[v].offset > 0 /\ views[v].len > 0

\* C2: a slice over a valid range shows v's elements start..end, references
\* v's backing without allocating or copying, and leaves v as it was.
C2_SliceIsSubrange ==
  [][last' = Op("slice", "ok") =>
     \A v \in Views, r \in Ranges :
       slice(v, r[1], r[2]) =>
         /\ as_slice(views'[NewView], arcs')
              = SubSeq(as_slice(views[v], arcs),
                       RangeStart(r) + 1, RangeEnd(r, views[v]))
         /\ views'[NewView].inner = views[v].inner
         /\ views'[v] = views[v]
         /\ \A a \in ArcIds : /\ arcs'[a].alive = arcs[a].alive
                              /\ arcs'[a].data = arcs[a].data]_vars

\* A slice has produced a non-empty window that starts after the start of a
\* source which itself starts inside the backing.
C2_Witness ==
  /\ last = Op("slice", "ok")
  /\ \E v, w \in Live :
       /\ views[w].inner = views[v].inner
       /\ views[v].offset > 0
       /\ views[w].offset > views[v].offset
       /\ views[w].len > 0 /\ views[w].len < views[v].len

\* C3: for every view and valid ranges a..b of it and c..d of that slice,
\* slice(a..b).slice(c..d) is the same (backing, offset, len) as
\* slice(a+c..a+d), which is itself a valid range of the view.
C3_SliceComposes ==
  \A v \in Live :
    LET vw == views[v] IN
    \A a \in 0..vw.len : \A b \in a..vw.len :
      LET first == slice_view(vw, a, b) IN
      \A c \in 0..first.len : \A d \in c..first.len :
        /\ slice_check(vw, a, b) = "ok"
        /\ slice_check(first, c, d) = "ok"
        /\ slice_check(vw, a + c, a + d) = "ok"
        /\ slice_view(first, c, d) = slice_view(vw, a + c, a + d)

\* Two live windows of one backing, the inner one strictly inside the outer
\* one, which is itself a slice (it does not start at the backing's start).
C3_Witness ==
  /\ last.op \in {"slice", "str_slice"}
  /\ last.out = "ok"
  /\ \E v, w \in Live :
       /\ v # w
       /\ views[w].inner = views[v].inner
       /\ views[v].offset > 0
       /\ views[w].offset > views[v].offset
       /\ views[w].offset + views[w].len
            <= views[v].offset + views[v].len

\* C4: a slice with start > end, or with end beyond the view's len, fails:
\* no view is produced and every view and every share count is unchanged.
C4_BadRangeRefused ==
  [][/\ (last'.op \in {"slice", "str_slice"} /\ last'.out = "ok") =>
          \A v \in Views, r \in Ranges :
            (slice(v, r[1], r[2]) \/ str_slice(v, r[1], r[2])) =>
              /\ RangeStart(r) <= RangeEnd(r, views[v])
              /\ RangeEnd(r, views[v]) <= views[v].len
     /\ (last'.op \in {"slice", "str_slice"} /\ last'.out # "ok") =>
          /\ views' = views
          /\ arcs' = arcs]_vars

\* A slice has failed on its end bound, and every end the call can have been
\* given lies inside the backing of every live view.
C4_Witness ==
  /\ last = Op("slice", "slice end out of bounds")
  /\ Live # {}
  /\ \A v \in Live :
       views[v].offset + MaxLen + 1 <= Len(full_slice(views[v], arcs))

\* C5: ref_count() of a view over a shared backing is the number of live
\* views that reference that backing.
C5_RefCountIsLiveViews ==
  \A v \in Live :
    ~is_static(views[v]) =>
      ref_count(views[v], arcs) = Cardinality(Sharers(v))

\* A sub-slice and its source are both live and the count is 2.
C5_Witness ==
  /\ last = Op("slice", "ok")
  /\ \E v, w \in Live :
       /\ v # w /\ ~is_static(views[v])
       /\ views[w].inner = views[v].inner
       /\ views[w].len < views[v].len
       /\ ref_count(views[v], arcs) = 2

\* C6: try_mut hands out mutable access exactly when the view is not static
\* and its ref_count() is 1, and then to exactly [offset, offset + len);
\* otherwise it answers None; either way no view and no count changes.
C6_TryMutIffUnique ==
  [][last'.op \in {"try_mut", "str_try_mut"} =>
     \A v \in Views :
       (try_mut(v) \/ str_try_mut(v)) =>
         /\ borrow'[v].some
              <=> (~is_static(views[v]) /\ ref_count(views[v], arcs) = 1)
         /\ borrow'[v].some =>
              /\ borrow'[v].lo = views[v].offset
              /\ borrow'[v].hi = views[v].offset + views[v].len
         /\ last'.out = (IF borrow'[v].some THEN "some" ELSE "none")
         /\ views' = views
         /\ arcs' = arcs]_vars

\* try_mut has succeeded on a unique view that is a proper window of its
\* backing.
C6_Witness ==
  /\ last = Op("try_mut", "some")
  /\ \E v \in Live :
       /\ borrow[v].some
       /\ views[v].offset > 0
       /\ borrow[v].hi - borrow[v].lo < Len(full_slice(views[v], arcs))

\* C7: after make_mut the view is not static, its ref_count() is 1, it shows
\* the content it showed before, and the expect() has not failed: mutable
\* access is handed out.
C7_MakeMutUnique ==
  [][last'.op \in {"make_mut", "str_make_mut"} =>
     \A v \in Views :
       (make_mut(v) \/ str_make_mut(v)) =>
         /\ ~is_static(views'[v])
         /\ ref_count(views'[v], arcs') = 1
         /\ as_slice(views'[v], arcs') = as_slice(views[v], arcs)
         /\ last'.out = "some"
         /\ borrow'[v].some]_vars

\* make_mut has succeeded on a clone of a static view that starts inside its
\* backing: the static view is still live and shows the same content.
C7_Witness ==
  /\ last = Op("make_mut", "some")
  /\ \E v, u \in Live :
       /\ v # u /\ borrow[v].some
       /\ is_static(views[u])
       /\ views[u].offset > 0 /\ views[u].len > 0
       /\ as_slice(views[u], arcs) = as_slice(views[v], arcs)

\* C8: a write through the mutable access of one view changes what no other
\* live view reads.
C8_WritesNotObservable ==
  [][last'.op \in {"write", "make_ascii_uppercase"} =>
     \A v \in Views :
       ((\E i \in 0..MaxLen, x \in WriteVals : write_elem(v, i, x))
          \/ make_ascii_uppercase(v)) =>
         \A u \in Live \ {v} :
           /\ views'[u] = views[u]
           /\ as_slice(views'[u], arcs') = as_slice(views[u], arcs)]_vars

\* A write has been made through a view whose sibling over a shared backing
\* is live and still shows the old element.
C8_Witness ==
  /\ last = Op("write", "ok")
  /\ \E v, u \in Live :
       /\ v # u /\ borrow[v].some
       /\ ~is_static(views[u])
       /\ views[u].len = views[v].len
       /\ as_slice(views[u], arcs) # as_slice(views[v], arcs)

\* C9 as stated: when make_mut copies, the other views of the old backing
\* report the same share count after the call as before it.
C9_AsClaimed ==
  [][last'.op \in {"make_mut", "str_make_mut"} =>
     \A v \in Views :
       ((make_mut(v) \/ str_make_mut(v)) /\ needs_clone(views[v], arcs)) =>
         \A u \in Sharers(v) \ {v} :
           ref_count(views'[u], arcs') = ref_count(views[u], arcs)]_vars

\* C9, amended: when make_mut copies, every other view of the old backing is
\* itself unchanged and reports one share less than before (the rebound view
\* gave its share up); over a static backing it still reports usize::MAX.
C9_SiblingCountDropsByOne ==
  [][last'.op \in {"make_mut", "str_make_mut"} =>
     \A v \in Views :
       ((make_mut(v) \/ str_make_mut(v)) /\ needs_clone(views[v], arcs)) =>
         \A u \in Sharers(v) \ {v} :
           /\ views'[u] = views[u]
           /\ ref_count(views'[u], arcs')
                = (IF is_static(views[u]) THEN USIZE_MAX
                   ELSE ref_count(views[u], arcs) - 1)]_vars

\* make_mut has copied a view away from a shared backing whose other view
\* is live, shows the same content and now counts 1.
C9_Witness ==
  /\ last.op \in {"make_mut", "str_make_mut"}
  /\ last.out = "some"
  /\ \E v, u \in Live :
       /\ v # u /\ borrow[v].some
       /\ ~is_static(views[u])
       /\ views[u].inner # views[v].inner
       /\ views[u].offset > 0 /\ views[u].len > 0
       /\ as_slice(views[u], arcs) = as_slice(views[v], arcs)
       /\ ref_count(views[u], arcs) = 1

\* C10: in every interleaving of the threads' calls, a view whose mutable
\* access is handed out is the only live view of its backing.
C10_NoAliasedMutableAccess ==
  \A v \in Live : borrow[v].some => Sharers(v) = {v}

\* A make_mut run statement by statement has copied a window that starts
\* inside a shared backing and has handed out mutable access to the copy,
\* while the view it was cloned from is live on the old backing.
C10_Witness ==
  /\ last = Op("make_mut", "some")
  /\ \E v, u \in Live :
       /\ v # u /\ borrow[v].some
       /\ ~is_static(views[u])
       /\ views[u].offset > 0 /\ views[u].len > 0
       /\ views[u].inner # views[v].inner
       /\ as_slice(views[u], arcs) = as_slice(views[v], arcs)

\* C11: clones and drops of views over the same Arc allocation made by
\* several threads at once lose no update: whenever no clone or drop is in
\* progress, the strong count of every allocation is the number of live views
\* that reference it, no live view references a released allocation, no
\* allocation without a view is left, and none is released twice.
Quiet == \A t \in Threads : threads[t].op = "idle"

C11_NoLostUpdate ==
  /\ last # Op("drop", "double free")
  /\ Quiet =>
       /\ \A a \in ArcIds :
            arcs[a].alive =>
              /\ arcs[a].strong >= 1
              /\ arcs[a].strong =
                   Cardinality({v \in Live : views[v].inner = InnerArc(a)})
       /\ \A v \in Live :
            views[v].inner.kind = "Arc" => arcs[views[v].inner.id].alive

C11_Witness ==
  /\ Quiet
  /\ last = Op("clone", "overlapped")
  /\ \E a \in ArcIds :
       /\ arcs[a].alive /\ arcs[a].strong = 2
       /\ Cardinality({v \in Live : views[v].inner = InnerArc(a)}) = 2

\* C12: an Arc allocation is alive exactly as long as some live view
\* references it: it is never released under a live view (no dangling view)
\* and it is released in the very step in which its last view is dropped or
\* rebinds to a new allocation in make_mut (no leak).
C12_ReleasedWithLastView ==
  /\ \A a \in ArcIds :
       arcs[a].alive <=> \E v \in Live : views[v].inner = InnerArc(a)
  /\ \A v \in Live :
       views[v].inner.kind = "Arc" => views[v].inner.id \in ArcIds

\* make_mut found view 1 shared, its sibling was dropped meanwhile, and the
\* copy then rebound view 1 from allocation 1 to allocation 2: allocation 1
\* lost its last view in the rebinding and is gone.
C12_Witness ==
  /\ pc[1] = "get_mut" /\ last = Op("drop", "ok")
  /\ Live = {1} /\ views[1].inner = InnerArc(2)
  /\ ~arcs[1].alive /\ arcs[2].alive

\* C13: a clone or a slice of a static view is static; every static view
\* reports ref_count() = usize::MAX whatever was cloned, sliced or dropped
\* before; and a view that was static stops being static only in a step of
\* make_mut on that very view.
C13_StaticStaysStatic ==
  [][\A v \in Views :
       /\ (views'[v].live /\ is_static(views'[v])) =>
            ref_count(views'[v], arcs') = USIZE_MAX
       /\ (last'.op = "clone" /\ clone(v) /\ is_static(views[v])) =>
            /\ is_static(views'[NewView])
            /\ is_static(views'[v])
       /\ (last' \in {Op("slice", "ok"), Op("str_slice", "ok")}
            /\ is_static(views[v])
            /\ \E r \in Ranges : slice(v, r[1], r[2]) \/ str_slice(v, r[1], r[2])) =>
            /\ is_static(views'[NewView])
            /\ is_static(views'[v])
       /\ (views[v].live /\ is_static(views[v])
            /\ views'[v].live /\ ~is_static(views'[v])) =>
            /\ last'.op \in {"make_mut", "str_make_mut"}
            /\ make_mut(v) \/ str_make_mut(v)]_vars

\* The static view was sliced and an earlier view of the static dropped: the
\* slice that is left is static and reports usize::MAX.
C13_Witness ==
  /\ last = Op("drop", "ok")
  /\ \E v \in Live :
       /\ Live = {v}
       /\ is_static(views[v]) /\ views[v].offset > 0
       /\ ref_count(views[v], arcs) = USIZE_MAX

\* The element at source index k (counted from 0) of the ten.
At(k) == TEN_DATA[k + 1]
\* The view v is the [2,8) slice of the whole ten-element backing.
IsSlice2to8(v) ==
  /\ full_slice(views[v], arcs) = TEN_DATA
  /\ views[v] = slice_view(FigBuf("slice", views[v].inner, 0, Len(TEN_DATA)), 2, 8)

\* C14, as claimed: the [1,4) slice of the [2,8) slice of the ten elements
\* holds the elements at source indices 5, 6 and 7.
C14_AsClaimed ==
  [][last' = Op("slice", "ok") =>
       \A v \in Views :
         (IsSlice2to8(v) /\ slice(v, Bound("Included", 1), Bound("Excluded", 4))) =>
           as_slice(views'[NewView], arcs') = <<At(5), At(6), At(7)>>]_vars

\* C14, amended: the [1,4) slice of the [2,8) slice of the ten elements is a
\* 3-element view that starts at source index 2 + 1 = 3: its elements are the
\* ones at source indices 3, 4 and 5.
C14_SliceOfSliceIs3to5 ==
  [][last' = Op("slice", "ok") =>
       \A v \in Views :
         (IsSlice2to8(v) /\ slice(v, Bound("Included", 1), Bound("Excluded", 4))) =>
           /\ views'[NewView].len = 3
           /\ views'[NewView].offset = 3
           /\ as_slice(views'[NewView], arcs') = <<At(3), At(4), At(5)>>]_vars

\* Both slices were taken: the second one is there next to the first.
C14_Witness ==
  /\ last = Op("slice", "ok")
  /\ \E v, w \in Live :
       /\ IsSlice2to8(v)
       /\ views[w] = slice_view(views[v], 1, 4)
       /\ as_slice(views[w], arcs) = <<3, 4, 5>>

\* Index i of the well-formed text s lies between two characters: the bytes
\* before it and the bytes from it on are both well-formed texts.
BetweenChars(s, i) ==
  /\ IsUtf8(SubSeq(s, 1, i))
  /\ IsUtf8(SubSeq(s, i + 1, Len(s)))

\* C15: FigBuf<str>::slice with start <= end <= len fails with the start
\* error when start is not a character boundary of the view's text, with the
\* end error when start is one and end is not, and otherwise succeeds with
\* the text between them; a failing slice changes nothing.  The view may
\* itself be a slice: the boundaries are those of its own text.
C15_BoundaryErrors ==
  [][last'.op = "str_slice" =>
       \A v \in Views :
         (views[v].live /\ views[v].ty = "str") =>
           LET s == as_slice(views[v], arcs)
           IN \A a \in 0..Len(s) : \A b \in a..Len(s) :
                str_slice(v, Bound("Included", a), Bound("Excluded", b)) =>
                  /\ ~BetweenChars(s, a) =>
                       last'.out = "slice start not at char boundary"
                  /\ (BetweenChars(s, a) /\ ~BetweenChars(s, b)) =>
                       last'.out = "slice end not at char boundary"
                  /\ (BetweenChars(s, a) /\ BetweenChars(s, b)) =>
                       /\ last'.out = "ok"
                       /\ as_slice(views'[NewView], arcs') = SubSeq(s, a + 1, b)
                  /\ last'.out # "ok" => (views' = views /\ arcs' = arcs)]_vars

\* Every view left is a slice that starts inside its backing, and a slice of
\* one of them was refused at its end bound.
C15_Witness ==
  /\ last = Op("str_slice", "slice end not at char boundary")
  /\ Live # {}
  /\ \A v \in Live : views[v].ty = "str" /\ views[v].offset > 0

\* C16: every live FigBuf<str> view has offset and offset + len on character
\* boundaries of its backing text, whose bytes are well-formed, so the text
\* as_str() returns is well-formed too.
C16_StrWindowOnBoundaries ==
  \A v \in Live :
    views[v].ty = "str" =>
      LET full == full_slice(views[v], arcs)
      IN /\ IsUtf8(full)
         /\ views[v].offset + views[v].len <= Len(full)
         /\ is_char_boundary(full, views[v].offset)
         /\ is_char_boundary(full, views[v].offset + views[v].len)
         /\ IsUtf8(as_slice(views[v], arcs))

\* A view of the two-byte character in the middle of its backing, next to a
\* view that make_mut has just made unique.
C16_Witness ==
  /\ last = Op("str_make_mut", "some")
  /\ \E v \in Live :
       /\ views[v].ty = "str" /\ views[v].offset = 1
       /\ as_slice(views[v], arcs) = <<195, 169>>

\* The value that the constructor of this step has built.
BuiltSmall == smalls'[NewSmall]

\* C17: from_slice and from_vec give an Inline value exactly when the payload
\* has at most N bytes (N bytes: inline, N + 1 bytes: heap), the two give the
\* same representation for the same payload, and as_slice() of the result is
\* the payload.
C17_InlineIffFits ==
  [][last'.op \in {"small_from_slice", "small_from_vec"} =>
       \A p \in Payloads :
         (small_from_slice(p) \/ small_from_vec(p)) =>
           /\ is_inline(BuiltSmall) <=> Len(p) <= N
           /\ is_heap(BuiltSmall) <=> Len(p) > N
           /\ SmallFigBuf_len(BuiltSmall) = Len(p)
           /\ SmallFigBuf_as_slice(BuiltSmall, arcs') = p
           /\ is_inline(SmallFigBuf_from_slice(p, N, NewArcIfAny, arcs).small)
                <=> is_inline(SmallFigBuf_from_vec(p, N, NewArcIfAny, arcs).small)]_vars

\* With N >= 1, a payload of exactly N bytes is held inline next to a payload
\* of N + 1 bytes held on the heap.
C17_Witness ==
  /\ N >= 1
  /\ last.op \in {"small_from_slice", "small_from_vec"}
  /\ \E s, t \in Smalls :
       /\ smalls[s].live /\ is_inline(smalls[s]) /\ SmallFigBuf_len(smalls[s]) = N
       /\ smalls[t].live /\ is_heap(smalls[t]) /\ SmallFigBuf_len(smalls[t]) = N + 1
       /\ SmallFigBuf_as_slice(smalls[t], arcs) = Prefix(N + 1)

\* C18, as claimed: with N = 0, from_slice and from_vec give a heap value for
\* a payload of any length.
C18_AsClaimed ==
  [][last'.op \in {"small_from_slice", "small_from_vec"} =>
       \A p \in Payloads :
         (N = 0 /\ (small_from_slice(p) \/ small_from_vec(p))) =>
           /\ is_heap(BuiltSmall)
           /\ ~is_inline(BuiltSmall)]_vars

\* C18, amended: with N = 0, from_slice and from_vec give a heap value for
\* every payload of one byte or more, and an Inline value of length 0 for
\* the empty payload, as new() does.
C18_ZeroCapacity ==
  [][last'.op \in {"small_from_slice", "small_from_vec", "small_new"} =>
       /\ \A p \in Payloads :
            (N = 0 /\ (small_from_slice(p) \/ small_from_vec(p))) =>
              /\ Len(p) > 0 => (is_heap(BuiltSmall) /\ ~is_inline(BuiltSmall))
              /\ Len(p) = 0 => (is_inline(BuiltSmall) /\ ~is_heap(BuiltSmall))
              /\ SmallFigBuf_as_slice(BuiltSmall, arcs') = p
       /\ (N = 0 /\ small_new) =>
            (is_inline(BuiltSmall) /\ SmallFigBuf_len(BuiltSmall) = 0)]_vars

\* With N = 0, the empty payload gave an Inline value, next to a heap value
\* made from a payload that is not empty.
C18_Witness ==
  /\ N = 0
  /\ last.op \in {"small_from_slice", "small_from_vec"}
  /\ \E s, t \in Smalls :
       /\ smalls[s].live /\ is_inline(smalls[s])
       /\ smalls[t].live /\ is_heap(smalls[t]) /\ SmallFigBuf_len(smalls[t]) > 0

\* A heap value over the static slice, as is_static() and ref_count() of its
\* FigBuf report it.
StaticSmall(sm, A) ==
  /\ sm.live /\ is_heap(sm) /\ ~is_inline(sm)
  /\ is_static(sm.buf)
  /\ ref_count(sm.buf, A) = USIZE_MAX

\* C19: from_static gives a heap value over the static slice whatever N is,
\* also when the slice would fit inline; every clone and every slice of such
\* a value is one too, and the FigBuf that to_figbuf or into_figbuf returns
\* for it is static with ref_count() = usize::MAX.
C19_FromStaticIsStaticHeap ==
  [][/\ (last'.op = "small_from_static" /\ small_from_static) =>
          /\ StaticSmall(BuiltSmall, arcs')
          /\ SmallFigBuf_as_slice(BuiltSmall, arcs') = STATIC_DATA
     /\ \A s \in Smalls :
          StaticSmall(smalls[s], arcs) =>
            /\ (last'.op = "small_clone" /\ small_clone(s)) =>
                 StaticSmall(BuiltSmall, arcs')
            /\ (last' = Op("small_slice", "ok")
                 /\ \E r \in SmallRanges : small_slice(s, r[1], r[2])) =>
                 StaticSmall(BuiltSmall, arcs')
            /\ (last'.op \in {"to_figbuf", "into_figbuf"}
                 /\ (to_figbuf(s) \/ into_figbuf(s))) =>
                 /\ is_static(views'[NewView])
                 /\ ref_count(views'[NewView], arcs') = USIZE_MAX
                 /\ as_slice(views'[NewView], arcs')
                      = SmallFigBuf_as_slice(smalls[s], arcs)]_vars

\* The static slice would fit inline; the value made from it is on the heap,
\* and the FigBuf taken out of a slice of that value is static.
C19_Witness ==
  /\ N >= Len(STATIC_DATA)
  /\ last = Op("into_figbuf", "ok")
  /\ \E s \in Smalls :
       StaticSmall(smalls[s], arcs) /\ SmallFigBuf_len(smalls[s]) = Len(STATIC_DATA)
  /\ \E v \in Live :
       /\ is_static(views[v]) /\ views[v].offset > 0
       /\ ref_count(views[v], arcs) = USIZE_MAX

\* C20: the representation of a SmallFigBuf never changes: a clone and a
\* slice have the representation of their source (a slice of a heap value is
\* a heap value even when it has at most N bytes), and no step changes the
\* representation of a value that is there before and after it.
C20_RepresentationFixed ==
  [][\A s \in Smalls :
       /\ (smalls[s].live /\ smalls'[s].live) =>
            smalls'[s].kind = smalls[s].kind
       /\ (last'.op = "small_clone" /\ small_clone(s)) =>
            /\ BuiltSmall.kind = smalls[s].kind
            /\ SmallFigBuf_as_slice(BuiltSmall, arcs')
                 = SmallFigBuf_as_slice(smalls[s], arcs)
       /\ last' = Op("small_slice", "ok") =>
            \A r \in SmallRanges :
              small_slice(s, r[1], r[2]) =>
                /\ BuiltSmall.kind = smalls[s].kind
                /\ SmallFigBuf_as_slice(BuiltSmall, arcs')
                     = SubSeq(SmallFigBuf_as_slice(smalls[s], arcs),
                              RangeStart(r) + 1,
                              EndOf(r[2], SmallFigBuf_len(smalls[s])))]_vars

\* A slice of a heap value that would fit inline is on the heap, over the
\* same allocation as its source.
C20_Witness ==
  /\ last = Op("small_slice", "ok")
  /\ \E s, t \in Smalls :
       /\ s # t /\ smalls[s].live /\ smalls[t].live
       /\ is_heap(smalls[s]) /\ is_heap(smalls[t])
       /\ smalls[s].buf.inner.kind = "Arc"
       /\ smalls[t].buf.inner = smalls[s].buf.inner
       /\ SmallFigBuf_len(smalls[s]) > N
       /\ SmallFigBuf_len(smalls[t]) >= 1 /\ SmallFigBuf_len(smalls[t]) <= N

\* The view that to_figbuf / into_figbuf of this step has returned.
BuiltView == views'[NewView]

\* C21, as claimed: to_figbuf() of an Inline value returns a view over a new
\* allocation with count 1 that holds exactly the logical bytes; to_figbuf()
\* of a Heap value returns a view of the same backing and raises the count
\* by one; into_figbuf() of a Heap value returns the FigBuf itself and leaves
\* the count alone; the view's content is always as_slice() of the value.
C21_AsClaimed ==
  [][last'.op \in {"to_figbuf", "into_figbuf"} =>
       \A s \in Smalls :
         LET sm == smalls[s]
         IN /\ (to_figbuf(s) /\ is_inline(sm)) =>
                 /\ BuiltView.inner.kind = "Arc"
                 /\ ~arcs[BuiltView.inner.id].alive
                 /\ ref_count(BuiltView, arcs') = 1
                 /\ full_slice(BuiltView, arcs') = SubSeq(sm.data, 1, sm.len)
            /\ (to_figbuf(s) /\ is_heap(sm)) =>
                 /\ BuiltView.inner = sm.buf.inner
                 /\ ref_count(BuiltView, arcs') - 1 = ref_count(sm.buf, arcs)
            /\ (into_figbuf(s) /\ is_heap(sm)) =>
                 /\ BuiltView = sm.buf
                 /\ ref_count(BuiltView, arcs') = ref_count(sm.buf, arcs)
            /\ (to_figbuf(s) \/ into_figbuf(s)) =>
                 as_slice(BuiltView, arcs') = SmallFigBuf_as_slice(sm, arcs)]_vars

\* C21, amended: as above, but to_figbuf() of a Heap value raises the count
\* by one only when the backing is an Arc allocation; over a static backing
\* ref_count() is usize::MAX before and after.  to_figbuf() leaves the value
\* as it was, into_figbuf() consumes it, and into_figbuf() of an Inline value
\* allocates like to_figbuf().
C21_ToFigBuf ==
  [][last'.op \in {"to_figbuf", "into_figbuf"} =>
       \A s \in Smalls :
         LET sm == smalls[s]
         IN /\ ((to_figbuf(s) \/ into_figbuf(s)) /\ is_inline(sm)) =>
                 /\ BuiltView.inner.kind = "Arc"
                 /\ ~arcs[BuiltView.inner.id].alive
                 /\ ref_count(BuiltView, arcs') = 1
                 /\ BuiltView.offset = 0
                 /\ full_slice(BuiltView, arcs') = SubSeq(sm.data, 1, sm.len)
            /\ (to_figbuf(s) /\ is_heap(sm)) =>
                 /\ BuiltView = sm.buf
                 /\ ref_count(BuiltView, arcs') =
                      IF is_static(sm.buf) THEN USIZE_MAX
                      ELSE ref_count(sm.buf, arcs) + 1
            /\ (into_figbuf(s) /\ is_heap(sm)) =>
                 /\ BuiltView = sm.buf
                 /\ arcs' = arcs
            /\ to_figbuf(s) => smalls' = smalls
            /\ into_figbuf(s) => ~smalls'[s].live
            /\ (to_figbuf(s) \/ into_figbuf(s)) =>
                 as_slice(BuiltView, arcs') = SmallFigBuf_as_slice(sm, arcs)]_vars

\* to_figbuf() has returned a second view of the allocation of a heap value
\* that is still there: two references, one allocation.
C21_Witness ==
  /\ last = Op("to_figbuf", "ok")
  /\ \E s \in Smalls, v \in Live :
       /\ smalls[s].live /\ is_heap(smalls[s])
       /\ views[v] = smalls[s].buf
       /\ views[v].inner.kind = "Arc"
       /\ ref_count(views[v], arcs) = 2
       /\ views[v].len >= 1

\* The allocations are what they were, but for their counts: nothing was
\* allocated, freed or copied.
SameBackings ==
  \A a \in ArcIds :
    /\ arcs'[a].alive = arcs[a].alive
    /\ arcs'[a].data = arcs[a].data

\* C22: for 0 <= at <= len, split_off(at) leaves [0, at) in self and returns
\* [at, len), split_to(at) leaves [at, len) in self and returns [0, at); the
\* two parts in order are the content before the call, and both are windows
\* of the backing the buffer had (one more reference, nothing copied).  The
\* buffer may itself be a part or a slice.
C22_SplitPreservesData ==
  [][last'.op \in {"split_off", "split_to"} =>
       \A v \in Views, at \in SplitAts :
         LET before == as_slice(views[v], arcs)
             self == as_slice(views'[v], arcs')
             ret == as_slice(views'[NewView], arcs')
         IN /\ ((split_off(v, at) \/ split_to(v, at)) /\ at <= Len(before)) =>
                 /\ last'.out = "ok"
                 /\ views'[v].inner = views[v].inner
                 /\ views'[NewView].inner = views[v].inner
                 /\ ref_count(views'[v], arcs') = ref_count(views[v], arcs) + 1
                 /\ SameBackings
            /\ (split_off(v, at) /\ at <= Len(before)) =>
                 /\ self = SubSeq(before, 1, at)
                 /\ ret = SubSeq(before, at + 1, Len(before))
                 /\ self \o ret = before
            /\ (split_to(v, at) /\ at <= Len(before)) =>
                 /\ ret = SubSeq(before, 1, at)
                 /\ self = SubSeq(before, at + 1, Len(before))
                 /\ ret \o self = before]_vars

\* A slice was split in the middle: two non-empty parts of one allocation,
\* neither at its start, one ending where the other begins.
C22_Witness ==
  /\ last = Op("split_off", "ok")
  /\ \E u, w \in Live :
       /\ views[u].inner = views[w].inner
       /\ views[u].offset > 0 /\ views[u].len > 0 /\ views[w].len > 0
       /\ views[u].offset + views[u].len = views[w].offset
       /\ ref_count(views[u], arcs) = 2

\* C30: split_off(at) and split_to(at) with at > len() panic in their first
\* slice (split_off: start > end; split_to: end out of bounds): no buffer is
\* returned, and self, every other view and every count are as before.
C30_SplitPastEndRefused ==
  [][last'.op \in {"split_off", "split_to"} =>
       \A v \in Views, at \in SplitAts :
         /\ (split_off(v, at) /\ at > views[v].len) =>
              /\ last'.out = "slice start must be <= end"
              /\ views' = views /\ arcs' = arcs
         /\ (split_to(v, at) /\ at > views[v].len) =>
              /\ last'.out = "slice end out of bounds"
              /\ views' = views /\ arcs' = arcs]_vars

\* split_to past the end of a buffer that is not empty was refused.
C30_Witness ==
  /\ last = Op("split_to", "slice end out of bounds")
  /\ Live # {}
  /\ \A v \in Live : views[v].len >= 1 /\ ref_count(views[v], arcs) >= 1

\* C23: make_mut() gives the view a new backing exactly when the view is
\* static, or starts after the start of its backing, or is shorter than it,
\* or shares it (ref_count() > 1).  The new backing then holds the visible
\* elements of the view and nothing else (offset 0, the length of the view);
\* otherwise the view and the allocations are left as they were.
C23_MakeMutCopiesIffNeeded ==
  [][last'.op \in {"make_mut", "str_make_mut"} =>
       \A v \in Views :
         (make_mut(v) \/ str_make_mut(v)) =>
           LET old == views[v]
               new == views'[v]
               replaced == new.inner # old.inner
           IN /\ replaced <=>
                   \/ is_static(old)
                   \/ old.offset # 0
                   \/ old.len # Len(full_slice(old, arcs))
                   \/ ref_count(old, arcs) > 1
              /\ replaced =>
                   /\ new.inner.kind = "Arc"
                   /\ ~arcs[new.inner.id].alive
                   /\ full_slice(new, arcs') = as_slice(old, arcs)
                   /\ new.offset = 0
                   /\ new.len = old.len
                   /\ Len(full_slice(new, arcs')) = old.len
              /\ ~replaced => (new = old /\ arcs' = arcs)]_vars

\* make_mut on a view of the second element alone: its new backing is that
\* one element, not the backing it was sliced from.
C23_Witness ==
  /\ last = Op("make_mut", "some")
  /\ \E v \in Live :
       /\ views[v].inner.kind = "Arc"
       /\ full_slice(views[v], arcs) = <<2>>
       /\ views[v].offset = 0 /\ views[v].len = 1
\* C24: every reachable Inline SmallFigBuf<N> holds an array of N bytes and a
\* length <= N; a slice of it with any range that passes the two asserts
\* takes the copying branch (never unreachable!()) and reads the array only
\* inside [0, N); no slice step ever ended in either of those panics.
C24_InlineWithinCapacity ==
  /\ last.out \notin {"slice of inline data cannot exceed capacity",
                      "range end index out of range"}
  /\ \A s \in Smalls :
       (smalls[s].live /\ is_inline(smalls[s])) =>
         /\ Len(smalls[s].data) = N
         /\ smalls[s].len <= N
         /\ \A r \in SmallRanges :
              LET start == StartOf(r[1])
                  end == EndOf(r[2], SmallFigBuf_len(smalls[s]))
              IN SmallFigBuf_slice_check(smalls[s], start, end) = "ok" =>
                   /\ SmallFigBuf_slice(smalls[s], start, end, N, NewArcIfAny, arcs).out = "ok"
                   /\ end <= N

\* A full inline value (N = MaxLen bytes) next to its inline slice 1..2.
C24_Witness ==
  /\ last = Op("small_slice", "ok")
  /\ N = MaxLen
  /\ \E s, t \in Smalls :
       /\ smalls[s].live /\ is_inline(smalls[s]) /\ smalls[s].len = N
       /\ smalls[t].live /\ is_inline(smalls[t])
       /\ smalls[t].len = 1 /\ smalls[t].data = Pad(<<2>>, N)

\* C25, as claimed: a successful slice of a Heap value returns a Heap value
\* over the same backing, copies nothing and raises the backing's count by
\* exactly one; a successful slice or a clone of an Inline value returns an
\* Inline value and touches no allocation.
C25_AsClaimed ==
  [][last' \in {Op("small_slice", "ok"), Op("small_clone", "ok")} =>
       \A s \in Smalls :
         LET sm == smalls[s]
         IN /\ ((\E r \in SmallRanges : small_slice(s, r[1], r[2])) /\ is_heap(sm)) =>
                 /\ is_heap(BuiltSmall)
                 /\ BuiltSmall.buf.inner = sm.buf.inner
                 /\ SameBackings
                 /\ ref_count(BuiltSmall.buf, arcs') - 1 = ref_count(sm.buf, arcs)
            /\ (((\E r \in SmallRanges : small_slice(s, r[1], r[2])) \/ small_clone(s))
                  /\ is_inline(sm)) =>
                 /\ is_inline(BuiltSmall)
                 /\ BuiltSmall.buf = NoView
                 /\ arcs' = arcs
                 /\ smalls'[s] = sm]_vars

\* C25, amended: as above, but the count rises by one only when the backing
\* of the Heap value is an Arc allocation; a slice of a Heap value over a
\* static slice is static again, with ref_count() = usize::MAX before and
\* after and no allocation touched.
C25_SliceSharesHeapCopiesInline ==
  [][last' \in {Op("small_slice", "ok"), Op("small_clone", "ok")} =>
       \A s \in Smalls :
         LET sm == smalls[s]
         IN /\ ((\E r \in SmallRanges : small_slice(s, r[1], r[2])) /\ is_heap(sm)) =>
                 /\ is_heap(BuiltSmall)
                 /\ BuiltSmall.buf.inner = sm.buf.inner
                 /\ SameBackings
                 /\ smalls'[s] = sm
                 /\ IF is_static(sm.buf)
                      THEN /\ ref_count(BuiltSmall.buf, arcs') = USIZE_MAX
                           /\ ref_count(sm.buf, arcs) = USIZE_MAX
                           /\ arcs' = arcs
                      ELSE ref_count(BuiltSmall.buf, arcs') = ref_count(sm.buf, arcs) + 1
            /\ (((\E r \in SmallRanges : small_slice(s, r[1], r[2])) \/ small_clone(s))
                  /\ is_inline(sm)) =>
                 /\ is_inline(BuiltSmall)
                 /\ BuiltSmall.buf = NoView
                 /\ arcs' = arcs
                 /\ smalls'[s] = sm]_vars

\* A Heap value and its slice 1.. over one allocation counted twice.
C25_Witness ==
  /\ last = Op("small_slice", "ok")
  /\ \E s, t \in Smalls :
       /\ smalls[s].live /\ is_heap(smalls[s]) /\ smalls[s].buf.offset = 0
       /\ smalls[t].live /\ is_heap(smalls[t]) /\ smalls[t].buf.offset = 1
       /\ smalls[t].buf.inner = smalls[s].buf.inner
       /\ ~is_static(smalls[s].buf)
       /\ ref_count(smalls[s].buf, arcs) = 2

\* The buffer lengths of a run of successive reads of one view.
ReadPlans == [1..3 -> {0, 1, MaxLen + 1}]

\* Read::read called once for each buffer length of the plan, in order: the
\* values returned, the bytes delivered one after the other, what is left.
RECURSIVE SuccessiveReads(_, _, _)
SuccessiveReads(vw, plan, A) ==
  IF plan = <<>> THEN [ns |-> <<>>, got |-> <<>>, self |-> vw, arcs |-> A]
  ELSE LET r == Read_read(vw, Head(plan), A)
           rest == SuccessiveReads(r.self, Tail(plan), r.arcs)
       IN [ns |-> <<r.n>> \o rest.ns, got |-> r.buf \o rest.got,
           self |-> rest.self, arcs |-> rest.arcs]

RECURSIVE SumTo(_, _)
SumTo(ns, k) == IF k = 0 THEN 0 ELSE ns[k] + SumTo(ns, k - 1)

\* C26: a read with a buffer of b bytes returns n = min(b, len), delivers the
\* first n visible bytes and leaves the view on the remaining ones; every
\* other view, every allocation and every share count is as before.  A run
\* of successive reads started here delivers a prefix of the visible bytes
\* in order (no gap, no repeat), each read returning min(b, what is left),
\* hence 0 once the total has reached the original length.
C26_ReadsDeliverInOrder ==
  [][last'.op = "read" =>
       \A v \in Views, b \in {0, 1, MaxLen + 1} :
         read(v, b) =>
           LET old == views[v]
               vis == as_slice(old, arcs)
               r == Read_read(old, b, arcs)
           IN /\ r.n = Min(b, Len(vis))
              /\ r.buf = SubSeq(vis, 1, r.n)
              /\ as_slice(views'[v], arcs') = SubSeq(vis, r.n + 1, Len(vis))
              /\ views'[v].inner = old.inner
              /\ \A w \in Views \ {v} : views'[w] = views[w]
              /\ arcs' = arcs
              /\ ref_count(views'[v], arcs') = ref_count(old, arcs)
              /\ \A plan \in ReadPlans :
                   LET rs == SuccessiveReads(old, plan, arcs)
                   IN /\ rs.got = SubSeq(vis, 1, Len(rs.got))
                      /\ Len(rs.got) = Min(SumTo(plan, Len(plan)), Len(vis))
                      /\ \A k \in 1..Len(plan) :
                           /\ rs.ns[k] = Min(plan[k], Len(vis) - SumTo(rs.ns, k - 1))
                           /\ SumTo(rs.ns, k - 1) = Len(vis) => rs.ns[k] = 0
                      /\ as_slice(rs.self, rs.arcs) =
                           SubSeq(vis, Len(rs.got) + 1, Len(vis))
                      /\ rs.arcs = arcs]_vars

\* A view read to its end next to a clone that still shows every byte of the
\* allocation, counted twice.
C26_Witness ==
  /\ last = Op("read", "ok")
  /\ views[1].live /\ views[1].offset = MaxLen /\ views[1].len = 0
  /\ views[2].live /\ views[2].offset = 0 /\ views[2].len = MaxLen
  /\ views[1].inner = views[2].inner
  /\ ref_count(views[2], arcs) = 2
  /\ as_slice(views[2], arcs) = Prefix(MaxLen)

\* C27: write() leaves every view as it was.  On an empty view it fails with
\* WriteZero; on a non-empty view that is static or shares its allocation it
\* fails with PermissionDenied; in both cases no allocation changes.  On a
\* non-empty view that alone owns its allocation it returns
\* n = min(buf.len(), len) and the view shows buf[..n] followed by the bytes
\* it showed after the first n; the bytes of the allocation outside the view
\* and the other allocations are untouched.
C27_WriteOwnedOrError ==
  [][last'.op = "Write::write" =>
       \A v \in Views, buf \in WriteBufs :
         write(v, buf) =>
           LET old == views[v]
               vis == as_slice(old, arcs)
               n == Min(Len(buf), Len(vis))
               r == Write_write(old, buf, arcs)
           IN /\ views' = views
              /\ IF Len(vis) = 0
                   THEN last'.out = "WriteZero" /\ arcs' = arcs
                 ELSE IF ~is_static(old) /\ ref_count(old, arcs) = 1
                   THEN /\ last'.out = "ok"
                        /\ r.n = n
                        /\ as_slice(old, arcs') =
                             SubSeq(buf, 1, n) \o SubSeq(vis, n + 1, Len(vis))
                        /\ \A a \in ArcIds :
                             /\ arcs'[a].alive = arcs[a].alive
                             /\ arcs'[a].strong = arcs[a].strong
                             /\ a # old.inner.id => arcs'[a] = arcs[a]
                        /\ \A i \in 1..Len(full_slice(old, arcs)) :
                             (i <= old.offset \/ i > old.offset + old.len) =>
                               full_slice(old, arcs')[i] = full_slice(old, arcs)[i]
                        /\ Len(full_slice(old, arcs')) = Len(full_slice(old, arcs))
                   ELSE last'.out = "PermissionDenied" /\ arcs' = arcs]_vars

\* One byte written into a two-byte view that alone owns its allocation.
C27_Witness ==
  /\ last = Op("Write::write", "ok")
  /\ \E v \in Live : as_slice(views[v], arcs) = <<9, 2>>

\* The view covers the whole of an allocation that it alone owns.
Settled(vw, A) ==
  /\ vw.live /\ vw.inner.kind = "Arc"
  /\ vw.offset = 0 /\ vw.len = Len(A[vw.inner.id].data)
  /\ A[vw.inner.id].strong = 1

\* The step is a call made on view v (a write through the `&mut` that
\* make_mut handed out, and the end of that borrow, are not).
OpOn(v) ==
  \/ last'.op = "clone" /\ clone(v)
  \/ last'.op = "drop" /\ drop(v)
  \/ last'.op = "slice" /\ \E r \in Ranges : slice(v, r[1], r[2])
  \/ last'.op = "str_slice" /\ \E r \in Ranges : str_slice(v, r[1], r[2])
  \/ last'.op = "read" /\ \E n \in 0..MaxLen : read(v, n)
  \/ last'.op = "try_mut" /\ try_mut(v)
  \/ last'.op = "str_try_mut" /\ str_try_mut(v)
  \/ last'.op = "make_mut" /\ make_mut(v)
  \/ last'.op = "str_make_mut" /\ str_make_mut(v)

\* The step writes through the `&mut` borrowed from view v.
WriteOn(v) ==
  \/ last'.op = "write" /\ \E i \in 0..MaxLen, x \in WriteVals : write_elem(v, i, x)
  \/ last'.op = "make_ascii_uppercase" /\ make_ascii_uppercase(v)

\* C28: every make_mut() leaves the view at offset 0 over the whole of an
\* allocation it alone owns; a view in that condition stays in it, on the
\* same allocation, through every step that is not a call on that view, and
\* its content changes only by the writes made through its borrow; a
\* make_mut() on a view in that condition changes neither the view nor any
\* allocation, so the view shows what those writes left.
C28_MakeMutIdempotent ==
  [][\A v \in Views :
       /\ (last'.op \in {"make_mut", "str_make_mut"}
             /\ (make_mut(v) \/ str_make_mut(v))) =>
            /\ Settled(views'[v], arcs')
            /\ Settled(views[v], arcs) =>
                 /\ views'[v] = views[v]
                 /\ arcs' = arcs
                 /\ last'.out = "some"
       /\ (Settled(views[v], arcs) /\ ~OpOn(v)) =>
            /\ views'[v] = views[v]
            /\ Settled(views'[v], arcs')
            /\ ~WriteOn(v) =>
                 as_slice(views'[v], arcs') = as_slice(views[v], arcs)]_vars

\* A static view made owned by make_mut(), written through the borrow, and
\* passed to make_mut() again: the copy of the three static elements is
\* still the backing and shows the write.
C28_Witness ==
  /\ last = Op("make_mut", "some")
  /\ \E v \in Live :
       /\ Settled(views[v], arcs)
       /\ as_slice(views[v], arcs) = <<9, 2, 3>>

\* C29: for a SmallFigStr and a FigBuf<str> that hold the same text, and the
\* same range, SmallFigStr::slice ends as FigBuf<str>::slice ends: with the
\* same assert failing, or both with a slice, of equal content.
C29_SameOutcome ==
  [][last'.op = "SmallFigStr_slice" =>
       \A s \in Smalls, r \in Ranges :
         SmallFigStr_slice(s, r[1], r[2]) =>
           \A v \in Live :
             (/\ views[v].ty = "str"
              /\ as_slice(views[v], arcs) = SmallFigBuf_as_slice(smalls[s], arcs)) =>
               LET start == StartOf(r[1])
                   end == EndOf(r[2], views[v].len)
                   k == str_slice_check(views[v], start, end, arcs)
               IN /\ k = last'.out
                  /\ k = "ok" =>
                       SmallFigBuf_as_slice(BuiltSmall, arcs') =
                         as_slice(slice_view(views[v], start, end), arcs)]_vars

====
